---- MODULE Spec2Model ----
(***************************************************************************)
(* Model of the dnd5e-2024 encounter calculator: the ally/enemy rosters    *)
(* (encounter-state.service.js), the difficulty calculator                 *)
(* (difficulty-calculator.service.js with the XP budget table), the loot   *)
(* aggregator and the treasure generator.                                  *)
(*                                                                         *)
(* A JavaScript value that may be null/undefined is modelled as a sequence *)
(* of length at most one: Null is <<>>, a present value v is <<v>>.        *)
(***************************************************************************)
EXTENDS Integers, Sequences, FiniteSets, TLC

VARIABLES
  \* EncounterCalculatorApp
  allies, enemies, importQueue,
  \* the arrays a pending importEncounterActor was handed: Null while they
  \* are this.allies and this.enemies themselves, their contents once the
  \* window has put a new array in their place; the uuids a pending load of
  \* the saved set has still to resolve
  importAllies, importEnemies, savedQueue,
  \* calculateDifficulty: its inputs beside the rosters, and its result
  targetDifficultyKey, difficultyDisplayMode, allyNpcWeight, difficulty,
  \* aggregateLootFromEnemies: mode, position of the async function, index
  \* of the enemy being resolved, the grouped Map (in insertion order), the
  \* actorResolver calls settled so far, the value the promise resolved with
  lootMode, lootPc, lootIdx, grouped, lootCalls, lootResult,
  \* the array the aggregation iterates: Null while it is this.enemies
  \* itself, its contents once this.enemies was replaced by a new array;
  \* the enemy object bound by the loop before the await, and whether that
  \* object is still an element of this.enemies; the roster at the call;
  \* the number of roster changes made while a resolver call was pending
  lootArray, lootEnemy, lootEnemyIn, lootSnapshot, mutations,
  \* generateIndividualTreasure: mode, position, index of the enemy being
  \* rolled, the running totals, the expressions handed to rollEvaluator, the
  \* value the promise resolved with; whether rollEvaluator is a function,
  \* and what its invocations settled with (Null for a rejection)
  treasureMode, treasurePc, treasureIdx, totalGp, totalPp, rollLog, treasure,
  rollEvaluator, rollResults,
  \* generateTreasureHoard: its maxCr and mode, position, goldTotal, the
  \* formulas handed to rollEvaluator, the value the promise resolved with,
  \* what the invocations of rollEvaluator settled with (Null: a rejection)
  hoardMaxCr, hoardMode, hoardPc, goldTotal, hoardLog, hoard, hoardResults,
  \* a call of one of the table lookups of calculator-actions.js: which
  \* function, its numeric argument (Null: a value Number() turns into NaN
  \* or null), the difficulty key, and the value returned (Null before)
  lookupFn, lookupArg, lookupKey, pseudoLevel, budgetRow,
  \* item.system.price of an item, and what getItemGoldValue and
  \* getItemGoldValueFromDocument returned for it (Null before the call)
  priceData, goldValue, documentGoldValue,
  \* the flags of the encounter actor createEncounterActor made (Null: none yet),
  \* the enemies it was made from, and whether the actor has since been
  \* brought to a calculator whose columns are empty
  encounterFlags, exportedRoster, calculatorEmptied,
  \* EncounterCreateDialog: _platinum, _gold, _silver, _copper and _electrum as
  \* one record, and _magicItemsCount; the position of the generate handler
  \* that is running, which generator it is for and the mode the prompt
  \* resolved with; the currency and magic item count as the handler found
  \* them, with what the user put into the fields since
  dialogCurrency, dialogMagicItemsCount, generationPc, generationKind, generationMode, currencyBefore,
  \* EncounterCreateDialog: _items and _autoLootInitialized; the positions of
  \* the _prepareContext invocations started so far; how often
  \* getAutoLootItemsFromEnemies was invoked; the uuids of the item drops that
  \* await fromUuid; how many local ids were made; the last handler that
  \* finished, with the list as it found it and its input (Null: none yet)
  dialogItems, autoLootInitialized, contexts, autoLootCalls, dropsPending, idsMade, lastStep

pending == <<importQueue, importAllies, importEnemies, savedQueue>>
rosterVars == <<allies, enemies, pending>>
diffVars == <<targetDifficultyKey, difficultyDisplayMode, allyNpcWeight, difficulty>>
lootVars ==
  <<lootMode, lootPc, lootIdx, grouped, lootCalls, lootResult, lootArray,
    lootEnemy, lootEnemyIn, lootSnapshot, mutations>>
treasureVars ==
  <<treasureMode, treasurePc, treasureIdx, totalGp, totalPp, rollLog, treasure,
    rollEvaluator, rollResults>>
hoardVars ==
  <<hoardMaxCr, hoardMode, hoardPc, goldTotal, hoardLog, hoard, hoardResults>>
lookupVars == <<lookupFn, lookupArg, lookupKey, pseudoLevel, budgetRow>>
priceVars == <<priceData, goldValue, documentGoldValue>>
exportVars == <<encounterFlags, exportedRoster, calculatorEmptied>>
generationVars == <<dialogCurrency, dialogMagicItemsCount, generationPc, generationKind, generationMode, currencyBefore>>
itemsVars == <<dialogItems, autoLootInitialized, contexts, autoLootCalls, dropsPending, idsMade, lastStep>>
vars ==
  <<rosterVars, diffVars, lootVars, treasureVars, hoardVars, lookupVars,
    priceVars,
    exportVars,
    generationVars,
    itemsVars>>

\* what the operations of one component leave alone
exceptRoster ==
  <<diffVars, lootVars, treasureVars, hoardVars, lookupVars, priceVars,
    exportVars,
    generationVars,
    itemsVars>>
exceptDiff ==
  <<lootVars, treasureVars, hoardVars, lookupVars, priceVars,
    exportVars,
    generationVars,
    itemsVars>>
exceptLoot ==
  <<rosterVars, diffVars, treasureVars, hoardVars, lookupVars, priceVars,
    exportVars,
    generationVars,
    itemsVars>>
exceptTreasure ==
  <<rosterVars, diffVars, lootVars, hoardVars, lookupVars, priceVars,
    exportVars,
    generationVars,
    itemsVars>>
exceptHoard ==
  <<rosterVars, diffVars, lootVars, treasureVars, lookupVars, priceVars,
    exportVars,
    generationVars,
    itemsVars>>
exceptLookup ==
  <<rosterVars, diffVars, lootVars, treasureVars, hoardVars, priceVars,
    exportVars,
    generationVars,
    itemsVars>>
exceptPrice ==
  <<rosterVars, diffVars, lootVars, treasureVars, hoardVars, lookupVars,
    exportVars,
    generationVars,
    itemsVars>>
exceptExport ==
  <<rosterVars, diffVars, lootVars, treasureVars, hoardVars, lookupVars, priceVars,
    generationVars,
    itemsVars>>
exceptGeneration ==
  <<rosterVars, diffVars, lootVars, treasureVars, hoardVars, lookupVars, priceVars, exportVars,
    itemsVars>>
exceptItems ==
  <<rosterVars, diffVars, lootVars, treasureVars, hoardVars, lookupVars, priceVars, exportVars, generationVars>>

Null == <<>>
Some(v) == <<v>>
IsNull(x) == x = <<>>
\* x ?? d
OrElse(x, d) == IF x = <<>> THEN d ELSE x[1]
\* Number(n) || d for a number n: 0 (falsy) gives d
NumOr(n, d) == IF n = 0 THEN d ELSE n

Min(a, b) == IF a < b THEN a ELSE b
Max(a, b) == IF a > b THEN a ELSE b

\* The literal 99 of the quantity clamps.
MaxQuantity == 99
\* The literal 999 that caps the import loop.
MaxImportLoops == 999

(***************************************************************************)
(* The actors of the world (what fromUuid resolves).  Fields follow the    *)
(* places the code reads: actor.type, system.details.level / cr / xp.value *)
(***************************************************************************)
Actor(uuid, type, level, cr, xp) ==
  [uuid |-> uuid, type |-> type, level |-> level, cr |-> cr, xp |-> xp]

ActorTable ==
  { Actor("pc5", "character", Some(5), Null, Some(6500)),
    Actor("pc5b", "character", Some(5), Null, Some(6500)),
    Actor("pc0", "character", Null, Null, Null),
    Actor("veh", "vehicle", Null, Null, Null),
    Actor("n2", "npc", Null, Some(2), Some(450)),
    Actor("n3", "npc", Null, Some(3), Some(25)),
    Actor("n4", "npc", Null, Some(4), Some(800)),
    Actor("n5", "npc", Null, Some(5), Some(450)),
    Actor("n10", "npc", Null, Some(10), Some(0)),
    Actor("n11", "npc", Null, Some(11), Some(7200)),
    Actor("n12", "npc", Null, Some(12), Some(8400)),
    Actor("n16", "npc", Null, Some(16), Some(15000)),
    Actor("n17", "npc", Null, Some(17), Some(18000)) }

ActorOf(uuid) == CHOOSE a \in ActorTable : a.uuid = uuid

(***************************************************************************)
(* encounter-state.service.js                                              *)
(***************************************************************************)
getActorXp(actor) == IF IsNull(actor.xp) THEN 0 ELSE actor.xp[1]

\* list.findIndex((e) => e.uuid === uuid); 0 stands for -1
FindIndex(list, uuid) ==
  IF \E i \in 1..Len(list) : list[i].uuid = uuid
  THEN CHOOSE i \in 1..Len(list) :
         /\ list[i].uuid = uuid
         /\ \A j \in 1..(i - 1) : list[j].uuid # uuid
  ELSE 0

\* list.splice(i, 1)
Splice(list, i) == SubSeq(list, 1, i - 1) \o SubSeq(list, i + 1, Len(list))

removeEntryFromList(list, uuid) ==
  LET index == FindIndex(list, uuid)
  IN  IF index # 0 THEN Splice(list, index) ELSE list

\* The entry built at the top of addSingleActorToSide.
NewEntry(actor) ==
  [uuid |-> actor.uuid, type |-> actor.type, level |-> actor.level,
   cr |-> actor.cr, xp |-> getActorXp(actor), quantity |-> 1,
   totalXp |-> Some(getActorXp(actor))]

\* updateEnemyQuantity that stores the new quantity and leaves totalXp stale.
updateEnemyQuantity_StaleTotal(en, uuid, mode, value) ==
  LET i == FindIndex(en, uuid)
  IN  IF i = 0 THEN en
      ELSE LET q0 == NumOr(en[i].quantity, 1)
               q == IF mode = "delta" THEN q0 + value ELSE value
               qc == IF q < 1 THEN 1 ELSE IF q > MaxQuantity THEN MaxQuantity ELSE q
           IN  IF q <= 0 THEN Splice(en, i)
               ELSE [en EXCEPT ![i] = [en[i] EXCEPT !.quantity = qc]]

\* RaiseExisting without the Math.min(…, 99) cap.
RaiseExisting_NoCap(existing) ==
  LET currentQ == NumOr(existing.quantity, 1) + 1
  IN  [existing EXCEPT !.quantity = currentQ,
                       !.totalXp = Some(NumOr(existing.xp, 0) * currentQ)]

\* The branch of addSingleActorToSide that raises an existing enemy row.
RaiseExisting(existing) ==
  LET currentQ == Min(NumOr(existing.quantity, 1) + 1, MaxQuantity)
  IN  [existing EXCEPT !.quantity = currentQ,
                       !.totalXp = Some(NumOr(existing.xp, 0) * currentQ)]

\* addSingleActorToSide that adds a row for every non-character enemy
addSingleActorToSide_AlwaysPush(al, en, actor, side) ==
  LET entry == NewEntry(actor)
      fresh == [entry EXCEPT !.quantity = 1,
                             !.totalXp = Some(NumOr(entry.xp, 0))]
  IN  IF actor.type = "character"
      THEN LET al2 == removeEntryFromList(al, entry.uuid)
               en2 == removeEntryFromList(en, entry.uuid)
           IN  IF side = "enemies"
               THEN [allies |-> al2, enemies |-> Append(en2, fresh)]
               ELSE [allies |-> Append(al2, entry), enemies |-> en2]
      ELSE IF side = "enemies"
           THEN [allies |-> al, enemies |-> Append(en, fresh)]
           ELSE [allies |-> Append(al, entry), enemies |-> en]

addSingleActorToSide(al, en, actor, side) ==
  LET entry == NewEntry(actor)
      fresh == [entry EXCEPT !.quantity = 1,
                             !.totalXp = Some(NumOr(entry.xp, 0))]
  IN  IF actor.type = "character"
      THEN LET al2 == removeEntryFromList(al, entry.uuid)
               en2 == removeEntryFromList(en, entry.uuid)
           IN  IF side = "enemies"
               THEN [allies |-> al2, enemies |-> Append(en2, fresh)]
               ELSE [allies |-> Append(al2, entry), enemies |-> en2]
      ELSE IF side = "enemies"
           THEN LET i == FindIndex(en, entry.uuid)
                IN  IF i # 0
                    THEN [allies |-> al,
                          enemies |-> [en EXCEPT ![i] = RaiseExisting(en[i])]]
                    ELSE [allies |-> al, enemies |-> Append(en, fresh)]
           ELSE [allies |-> Append(al, entry), enemies |-> en]

updateEnemyQuantity(en, uuid, mode, value) ==
  LET i == FindIndex(en, uuid)
  IN  IF i = 0 THEN en
      ELSE LET enemy == en[i]
               baseXp == NumOr(enemy.xp, 0)
               q0 == NumOr(enemy.quantity, 1)
               q == IF mode = "delta" THEN q0 + value
                    ELSE IF mode = "set" THEN value
                    ELSE q0
               qc == IF q < 1 THEN 1 ELSE IF q > MaxQuantity THEN MaxQuantity ELSE q
           IN  IF q <= 0 THEN Splice(en, i)
               ELSE [en EXCEPT ![i] = [enemy EXCEPT !.quantity = qc,
                                                    !.totalXp = Some(baseXp * qc)]]

(***************************************************************************)
(* difficulty-calculator.service.js: normalizeEnemyQuantities              *)
(***************************************************************************)
NormalizeEntry(enemy) ==
  LET baseXp == NumOr(enemy.xp, 0)
      q0 == NumOr(enemy.quantity, 1)
      q == IF q0 < 1 THEN 1 ELSE IF q0 > MaxQuantity THEN MaxQuantity ELSE q0
  IN  [enemy EXCEPT !.quantity = q, !.totalXp = Some(baseXp * q)]

normalizeEnemyQuantities(en) == [i \in 1..Len(en) |-> NormalizeEntry(en[i])]

(***************************************************************************)
(* calculator-actions.js: the XP budget table and its two lookups          *)
(***************************************************************************)
Row(low, moderate, high) == [low |-> low, moderate |-> moderate, high |-> high]

XP_BUDGET_2024 ==
  <<Row(50, 75, 100), Row(100, 150, 200), Row(150, 225, 400),
    Row(250, 375, 500), Row(500, 750, 1100), Row(600, 1000, 1400),
    Row(750, 1300, 1700), Row(1000, 1700, 2100), Row(1300, 2000, 2600),
    Row(1600, 2300, 3100), Row(1900, 2900, 4100), Row(2200, 3700, 4700),
    Row(2600, 4200, 5400), Row(2900, 4900, 6200), Row(3300, 5400, 7800),
    Row(3800, 6100, 9800), Row(4500, 7200, 11700), Row(5000, 8700, 14200),
    Row(5500, 10700, 17200), Row(6400, 13200, 22000)>>

\* Number of table rows (levels 1..20).
MaxLevel == 20

Abs(x) == IF x < 0 THEN -x ELSE x

\* the lookup with the upper clamp one row short
getBudgetRowForLevel_Cap19(level) ==
  XP_BUDGET_2024[Max(1, Min(MaxLevel - 1, NumOr(level, 1)))]

\* Math.max(1, Math.min(20, Number(level) || 1)), then the table row
getBudgetRowForLevel(level) ==
  XP_BUDGET_2024[Max(1, Min(MaxLevel, NumOr(level, 1)))]

RECURSIVE PseudoLevelScan_LastWins(_, _, _, _, _)
\* the scan with diff <= bestDiff: of equally near levels the last one wins
PseudoLevelScan_LastWins(lvl, xp, key, bestLevel, bestDiff) ==
  IF lvl > MaxLevel THEN bestLevel
  ELSE LET diff == Abs(XP_BUDGET_2024[lvl][key] - xp)
       IN  IF IsNull(bestDiff) \/ diff <= bestDiff[1]
           THEN PseudoLevelScan_LastWins(lvl + 1, xp, key, lvl, Some(diff))
           ELSE PseudoLevelScan_LastWins(lvl + 1, xp, key, bestLevel, bestDiff)

RECURSIVE PseudoLevelScan(_, _, _, _, _)
\* The for loop of getPseudoLevelForNpcXp over Object.entries (ascending
\* levels); bestDiff is Null while it is still Infinity.
PseudoLevelScan(lvl, xp, key, bestLevel, bestDiff) ==
  IF lvl > MaxLevel THEN bestLevel
  ELSE LET diff == Abs(XP_BUDGET_2024[lvl][key] - xp)
       IN  IF IsNull(bestDiff) \/ diff < bestDiff[1]
           THEN PseudoLevelScan(lvl + 1, xp, key, lvl, Some(diff))
           ELSE PseudoLevelScan(lvl + 1, xp, key, bestLevel, bestDiff)

\* the lookup answering 0, no level, for an NPC without XP
getPseudoLevelForNpcXp_NoLevel(npcXp, difficultyKey) ==
  LET xp == NumOr(npcXp, 0)
      validDifficulty == IF difficultyKey \in {"low", "high", "moderate"}
                         THEN difficultyKey ELSE "moderate"
  IN  IF xp <= 0 THEN 0
      ELSE PseudoLevelScan(1, xp, validDifficulty, 1, Null)

getPseudoLevelForNpcXp(npcXp, difficultyKey) ==
  LET xp == NumOr(npcXp, 0)
      validDifficulty == IF difficultyKey \in {"low", "high", "moderate"}
                         THEN difficultyKey ELSE "moderate"
  IN  IF xp <= 0 THEN 1
      ELSE PseudoLevelScan(1, xp, validDifficulty, 1, Null)

(***************************************************************************)
(* difficulty-calculator.service.js: calculateDifficulty.  Weights are     *)
(* counted in twentieths (the setting's step is 0.05), so a character      *)
(* weighs WeightUnit; the weights used are multiples of 0.25, for which    *)
(* the floating-point products and sums of the code are exact.             *)
(***************************************************************************)
WeightUnit == 20

\* Number(x) of a nullable number: Number(null) is 0
NumberOf(x) == IF IsNull(x) THEN 0 ELSE x[1]

\* What the loop over allies pushes for one ally.
MembersOf(ally, weight) ==
  IF ally.type = "character"
  THEN <<[level |-> NumOr(NumberOf(ally.level), 1), weight |-> WeightUnit,
          source |-> "pc"]>>
  ELSE IF ally.type = "npc"
  THEN LET npcXp == NumOr(ally.xp, 0)
       IN  IF npcXp <= 0 THEN <<>>
           ELSE IF weight <= 0 THEN <<>>
           ELSE <<[level |-> getPseudoLevelForNpcXp(npcXp, "moderate"),
                   weight |-> weight, source |-> "ally-npc"]>>
  ELSE <<>>

RECURSIVE PartyMembers(_, _)
PartyMembers(al, weight) ==
  IF al = <<>> THEN <<>>
  ELSE MembersOf(Head(al), weight) \o PartyMembers(Tail(al), weight)

\* Number(e.totalXp ?? (Number(e.xp) || 0) * (Number(e.quantity ?? 1) || 1)) || 0
EnemyTotalXp(e) ==
  IF IsNull(e.totalXp) THEN NumOr(e.xp, 0) * NumOr(e.quantity, 1)
  ELSE e.totalXp[1]

RECURSIVE SumTotalXP(_)
\* enemies.reduce((sum, e) => sum + ..., 0)
SumTotalXP(en) ==
  IF en = <<>> THEN 0
  ELSE SumTotalXP(SubSeq(en, 1, Len(en) - 1)) + EnemyTotalXp(en[Len(en)])

\* Math.floor of n twentieths
MathRound20_Floor(n) == n \div WeightUnit
\* Math.round of n twentieths: the nearest integer, a half rounding up
MathRound20(n) == (2 * n + WeightUnit) \div (2 * WeightUnit)

RECURSIVE BudgetTotals(_, _)
\* The loop of xpBudgetsForParty: totals in twentieths.
BudgetTotals(members, totals) ==
  IF members = <<>> THEN totals
  ELSE LET member == Head(members)
           row == getBudgetRowForLevel(member.level)
           weight == NumOr(member.weight, WeightUnit)
       IN  BudgetTotals(Tail(members),
                        Row(totals.low + row.low * weight,
                            totals.moderate + row.moderate * weight,
                            totals.high + row.high * weight))

xpBudgetsForParty(partyMembers) ==
  LET totals == BudgetTotals(partyMembers, Row(0, 0, 0))
  IN  Row(MathRound20(totals.low), MathRound20(totals.moderate),
          MathRound20(totals.high))

difficultyName(diffKey) ==
  CASE diffKey = "low" -> "Niska"
    [] diffKey = "moderate" -> "Umiarkowana"
    [] diffKey = "high" -> "Wysoka"
    [] OTHER -> diffKey

\* labelClassicDmg with <= turned into <
labelClassicDmg_Strict(totalXP, budgets) ==
  IF totalXP = 0 THEN "Brak wrogow"
  ELSE IF budgets.low <= 0 /\ budgets.moderate <= 0 /\ budgets.high <= 0
  THEN "Brak budzetu"
  ELSE IF totalXP < budgets.low THEN "Niskie"
  ELSE IF totalXP < budgets.moderate THEN "Umiarkowane"
  ELSE IF totalXP < budgets.high THEN "Wysokie"
  ELSE "Ekstremalne"

labelClassicDmg(totalXP, budgets) ==
  IF totalXP = 0 THEN "Brak wrogow"
  ELSE LET low == budgets.low
           moderate == budgets.moderate
           high == budgets.high
       IN  IF low <= 0 /\ moderate <= 0 /\ high <= 0 THEN "Brak budzetu"
           ELSE IF totalXP <= low THEN "Niskie"
           ELSE IF totalXP <= moderate THEN "Umiarkowane"
           ELSE IF totalXP <= high THEN "Wysokie"
           ELSE "Ekstremalne"

\* labelRelativeToBudget with ratio <= 0.75 as the first test
labelRelativeToBudget_Le(totalXP, budget) ==
  IF totalXP = 0 THEN "Brak wrogow"
  ELSE IF budget = 0 THEN "Brak budzetu"
  ELSE IF 4 * totalXP <= 3 * budget THEN "Ponizej budzetu"
  ELSE IF 4 * totalXP <= 5 * budget THEN "W zakresie budzetu"
  ELSE IF 4 * totalXP <= 7 * budget THEN "Powyzej budzetu"
  ELSE "Znacznie powyzej budzetu"

\* ratio = totalXP / budget against 0.75, 1.25, 1.75: with integer totalXP
\* and budget > 0 the comparisons are those of 4 * totalXP with 3, 5, 7
\* times budget (the quotient of two integers below 2^50 cannot round onto
\* a threshold it differs from).
labelRelativeToBudget(totalXP, budget) ==
  IF totalXP = 0 THEN "Brak wrogow"
  ELSE IF budget = 0 THEN "Brak budzetu"
  ELSE IF 4 * totalXP < 3 * budget THEN "Ponizej budzetu"
  ELSE IF 4 * totalXP <= 5 * budget THEN "W zakresie budzetu"
  ELSE IF 4 * totalXP <= 7 * budget THEN "Powyzej budzetu"
  ELSE "Znacznie powyzej budzetu"

\* calculateDifficulty returning "No enemies" before it looks at the party
calculateDifficulty_EnemiesFirst(al, en, targetKey, displayMode, weight) ==
  LET totalXP == SumTotalXP(en)
      partyMembers == PartyMembers(al, weight)
      budgets == xpBudgetsForParty(partyMembers)
      targetDifficulty == IF targetKey \in {"low", "moderate", "high"}
                          THEN targetKey ELSE "moderate"
  IN  IF totalXP = 0
      THEN [label |-> "Brak wrogow", targetLabel |-> difficultyName(targetDifficulty),
            budget |-> budgets[targetDifficulty], totalXP |-> totalXP]
      ELSE IF partyMembers = <<>>
      THEN [label |-> "Brak druzyny", targetLabel |-> "-", budget |-> 0,
            totalXP |-> totalXP]
      ELSE [label |-> labelClassicDmg(totalXP, budgets),
            targetLabel |-> difficultyName(targetDifficulty),
            budget |-> budgets[targetDifficulty], totalXP |-> totalXP]

calculateDifficulty(al, en, targetKey, displayMode, weight) ==
  LET partyMembers == PartyMembers(al, weight)
      totalXP == SumTotalXP(en)
  IN  IF partyMembers = <<>>
      THEN [label |-> "Brak druzyny", targetLabel |-> "-", budget |-> 0,
            totalXP |-> totalXP]
      ELSE LET budgets == xpBudgetsForParty(partyMembers)
               targetDifficulty == IF targetKey \in {"low", "moderate", "high"}
                                   THEN targetKey ELSE "moderate"
               budget == budgets[targetDifficulty]
               mode == IF displayMode # "budget" /\ displayMode # "dmg"
                       THEN "dmg" ELSE displayMode
               label == IF mode = "budget"
                        THEN labelRelativeToBudget(totalXP, budget)
                        ELSE labelClassicDmg(totalXP, budgets)
           IN  [label |-> label,
                targetLabel |-> difficultyName(targetDifficulty),
                budget |-> budget, totalXP |-> totalXP]

(***************************************************************************)
(* importEncounterActor: the entries read from flags[moduleId].enemies,    *)
(* then one awaited resolution and a burst of addSingleActorToSide calls   *)
(* per entry.  importQueue holds the entries not yet processed.            *)
(***************************************************************************)
FlagEntry(uuid, quantity) == [uuid |-> uuid, quantity |-> quantity]

\* flags.enemies of the encounter actors that can be dropped.
EncounterTable ==
  { <<FlagEntry("pc5", 3), FlagEntry("n3", 2)>> }

\* .map(e => ({uuid, quantity: Number(e.quantity ?? 1) || 1}))
ImportEntries(flagsEnemies) ==
  [i \in 1..Len(flagsEnemies) |->
     FlagEntry(flagsEnemies[i].uuid, NumOr(flagsEnemies[i].quantity, 1))]

RECURSIVE AddLoops(_, _, _, _)
\* for (let i = 0; i < loops; i++) addSingleActorToSide({... side: "enemies"})
\* The loops calls are applied as two halves, the first half evaluated before
\* the second starts, which keeps the evaluation shallow.
AddLoops(al, en, actor, loops) ==
  IF loops <= 0 THEN [allies |-> al, enemies |-> en]
  ELSE IF loops = 1 THEN addSingleActorToSide(al, en, actor, "enemies")
  ELSE LET half == loops \div 2
           r == AddLoops(al, en, actor, half)
       IN  IF Len(r.enemies) >= 0
           THEN AddLoops(r.allies, r.enemies, actor, loops - half)
           ELSE r

ImportOne(al, en, e) ==
  LET qty == NumOr(e.quantity, 1)
      loops == Max(1, Min(qty, MaxImportLoops))
  IN  AddLoops(al, en, ActorOf(e.uuid), loops)

(***************************************************************************)
(* The calculator window: allies = [], enemies = [] at construction, and   *)
(* one action per handler.                                                 *)
(***************************************************************************)
\* Bound on the allies column (allied NPCs are never grouped, so it grows).
MaxAllies == 1

Sides == {"allies", "enemies"}
\* The actors dragged onto the calculator in this specification.
DropUuids == {"pc5", "n3"}
\* Values handed to updateEnemyQuantity.
QuantityValues == {-1, 0, 1, 100}

\* the difficulty calculator at rest
DiffIdle ==
  /\ targetDifficultyKey = "moderate"
  /\ difficultyDisplayMode = "dmg"
  /\ allyNpcWeight = 10
  /\ difficulty = Null

\* no loot aggregation running
LootIdle ==
  /\ lootMode = "perEnemy"
  /\ lootPc = "idle"
  /\ lootIdx = 0
  /\ grouped = <<>>
  /\ lootCalls = <<>>
  /\ lootResult = Null
  /\ lootArray = Null
  /\ lootEnemy = Null
  /\ lootEnemyIn = FALSE
  /\ lootSnapshot = <<>>
  /\ mutations = 0

\* no treasure generation running
TreasureIdle ==
  /\ treasureMode = "average"
  /\ treasurePc = "idle"
  /\ treasureIdx = 0
  /\ totalGp = 0
  /\ totalPp = 0
  /\ rollLog = <<>>
  /\ treasure = Null
  /\ rollEvaluator = "function"
  /\ rollResults = <<>>

\* no hoard generation running
HoardIdle ==
  /\ hoardMaxCr = Null
  /\ hoardMode = "average"
  /\ hoardPc = "idle"
  /\ goldTotal = 0
  /\ hoardLog = <<>>
  /\ hoard = Null
  /\ hoardResults = <<>>

\* no table lookup called
LookupIdle ==
  /\ lookupFn = "none"
  /\ lookupArg = Null
  /\ lookupKey = "moderate"
  /\ pseudoLevel = Null
  /\ budgetRow = Null

\* no price converted
PriceIdle ==
  /\ priceData = Null
  /\ goldValue = Null
  /\ documentGoldValue = Null

\* no encounter actor created
ExportIdle ==
  /\ encounterFlags = Null
  /\ exportedRoster = <<>>
  /\ calculatorEmptied = FALSE

\* no create-encounter dialog is open
GenerationIdle ==
  /\ dialogCurrency = Null
  /\ dialogMagicItemsCount = 0
  /\ generationPc = "idle"
  /\ generationKind = "none"
  /\ generationMode = Null
  /\ currencyBefore = Null

\* no item list of a dialog is in use
ItemsIdle ==
  /\ dialogItems = <<>>
  /\ autoLootInitialized = FALSE
  /\ contexts = <<>>
  /\ autoLootCalls = 0
  /\ dropsPending = <<>>
  /\ idsMade = 0
  /\ lastStep = Null

Init ==
  /\ allies = <<>>
  /\ enemies = <<>>
  /\ importQueue = <<>>
  /\ importAllies = Null
  /\ importEnemies = Null
  /\ savedQueue = <<>>
  /\ DiffIdle
  /\ LootIdle
  /\ TreasureIdle
  /\ HoardIdle
  /\ LookupIdle
  /\ PriceIdle
  /\ ExportIdle
  /\ GenerationIdle
  /\ ItemsIdle

\* _onDrop with an ordinary actor
DropActor(uuid, side) ==
  LET r == addSingleActorToSide(allies, enemies, ActorOf(uuid), side)
  IN  /\ Len(r.allies) <= MaxAllies
      /\ allies' = r.allies
      /\ enemies' = r.enemies
      /\ UNCHANGED pending
  /\ UNCHANGED exceptRoster

\* _onActionIncreaseQuantity / _onActionDecreaseQuantity / #onQuantityInputChange
UpdateEnemyQuantity(uuid, mode, value) ==
  /\ enemies' = updateEnemyQuantity(enemies, uuid, mode, value)
  /\ UNCHANGED <<allies, pending>>
  /\ UNCHANGED exceptRoster

\* _onActionRemoveEntry
RemoveEntry(side, uuid) ==
  /\ IF side = "enemies"
     THEN /\ enemies' = removeEntryFromList(enemies, uuid)
          /\ UNCHANGED allies
     ELSE /\ allies' = removeEntryFromList(allies, uuid)
          /\ UNCHANGED enemies
  /\ UNCHANGED pending
  /\ UNCHANGED exceptRoster

\* _onActionClearEnemies: this.enemies = [], a new array; a pending import
\* keeps the array it was handed
ClearEnemies ==
  /\ enemies' = <<>>
  /\ importEnemies' = IF importQueue # <<>> /\ importEnemies = Null
                      THEN Some(enemies) ELSE importEnemies
  /\ UNCHANGED <<allies, importQueue, importAllies, savedQueue>>
  /\ UNCHANGED exceptRoster

\* render() -> _prepareContext
Render ==
  /\ enemies' = normalizeEnemyQuantities(enemies)
  /\ UNCHANGED <<allies, pending>>
  /\ UNCHANGED exceptRoster

\* _onDrop with an encounter actor: importEncounterActor up to its first await
ImportStart(flagsEnemies) ==
  /\ importQueue = <<>>
  /\ importQueue' = ImportEntries(flagsEnemies)
  /\ UNCHANGED <<allies, enemies, importAllies, importEnemies, savedQueue>>
  /\ UNCHANGED exceptRoster

\* the awaited actorResolverByUuid settles: the actor, or null (entry skipped)
ImportStep(found) ==
  /\ importQueue # <<>>
  /\ LET al == IF importAllies = Null THEN allies ELSE importAllies[1]
         en == IF importEnemies = Null THEN enemies ELSE importEnemies[1]
         r == IF found THEN ImportOne(al, en, Head(importQueue))
              ELSE [allies |-> al, enemies |-> en]
         over == Tail(importQueue) = <<>>
     IN  /\ allies' = IF importAllies = Null THEN r.allies ELSE allies
         /\ enemies' = IF importEnemies = Null THEN r.enemies ELSE enemies
         /\ importAllies' = IF over \/ importAllies = Null THEN Null
                            ELSE Some(r.allies)
         /\ importEnemies' = IF over \/ importEnemies = Null THEN Null
                             ELSE Some(r.enemies)
  /\ importQueue' = Tail(importQueue)
  /\ UNCHANGED savedQueue
  /\ UNCHANGED exceptRoster

\* Highest quantity of a row in an enemies array that is cleared away
\* while an import still works on it.
MaxDetachedQuantity == 2

\* the array a pending import was left with holds small quantities only
WithinDetached ==
  \/ importEnemies = Null
  \/ \A i \in 1..Len(importEnemies[1]) :
       importEnemies[1][i].quantity <= MaxDetachedQuantity

\* while a pending import works on an array that was cleared away, the
\* rows of the new enemies column hold small quantities only
LiveWithinDetached ==
  \/ importEnemies = Null
  \/ \A i \in 1..Len(enemies) : enemies[i].quantity <= MaxDetachedQuantity

Next ==
  \/ \E u \in DropUuids, s \in Sides : DropActor(u, s) /\ LiveWithinDetached'
  \/ \E u \in DropUuids, m \in {"delta", "set"}, v \in QuantityValues :
       UpdateEnemyQuantity(u, m, v) /\ LiveWithinDetached'
  \/ \E u \in DropUuids, s \in Sides : RemoveEntry(s, u)
  \/ ClearEnemies /\ WithinDetached'
  \/ Render
  \/ \E f \in EncounterTable : ImportStart(f)
  \/ \E found \in BOOLEAN : ImportStep(found)

Spec == Init /\ [][Next]_vars

(***************************************************************************)
(* The calculator window with all the handlers that fill the columns:      *)
(* group drops, the saved set and the clearing of the allies as well.      *)
(* The quantities and the allies column are kept small.                    *)
(***************************************************************************)
MaxWindowAllies == 2
MaxWindowQuantity == 2

\* game.actors.get(id) / fromUuid(uuid) finds the actor
Resolves(uuid) == \E a \in ActorTable : a.uuid = uuid

\* system.members of the group actors that can be dropped: ids of actors,
\* one of them no longer in the world
GroupTable == { <<"pc5", "n3", "gone">> }
\* savedAllies.uuids / savedTeam.uuids of the world settings
SavedTable == { <<"pc5", "n3">> }
WindowQuantityValues == {-1, 1}

RECURSIVE AddMembers(_, _, _, _)
\* the loop of addGroupMembers over memberIds
AddMembers(al, en, memberIds, side) ==
  IF memberIds = <<>> THEN [allies |-> al, enemies |-> en]
  ELSE IF ~Resolves(Head(memberIds))
       THEN AddMembers(al, en, Tail(memberIds), side)
       ELSE LET r == addSingleActorToSide(al, en, ActorOf(Head(memberIds)), side)
            IN  AddMembers(r.allies, r.enemies, Tail(memberIds), side)

\* _onDrop with a group actor: addGroupMembers, which does not await
DropGroup(memberIds, side) ==
  LET r == AddMembers(allies, enemies, memberIds, side)
  IN  /\ allies' = r.allies
      /\ enemies' = r.enemies
      /\ UNCHANGED pending
  /\ UNCHANGED exceptRoster

\* _onActionClearAllies: this.allies = [], a new array
ClearAllies ==
  /\ allies' = <<>>
  /\ importAllies' = IF importQueue # <<>> /\ importAllies = Null
                     THEN Some(allies) ELSE importAllies
  /\ UNCHANGED <<enemies, importQueue, importEnemies, savedQueue>>
  /\ UNCHANGED exceptRoster

\* _onActionLoadSaved / _loadSavedFromSettings up to the first await:
\* this.allies = [] once there is something to load
LoadSavedStart(uuids) ==
  /\ savedQueue = <<>>
  /\ uuids # <<>>
  /\ allies' = <<>>
  /\ importAllies' = IF importQueue # <<>> /\ importAllies = Null
                     THEN Some(allies) ELSE importAllies
  /\ savedQueue' = uuids
  /\ UNCHANGED <<enemies, importQueue, importEnemies>>
  /\ UNCHANGED exceptRoster

\* await fromUuid(uuid) settles: the actor joins this.allies as it is now
LoadSavedStep(found) ==
  /\ savedQueue # <<>>
  /\ LET r == IF found /\ Resolves(Head(savedQueue))
              THEN addSingleActorToSide(allies, enemies,
                                        ActorOf(Head(savedQueue)), "allies")
              ELSE [allies |-> allies, enemies |-> enemies]
     IN  /\ allies' = r.allies
         /\ enemies' = r.enemies
  /\ savedQueue' = Tail(savedQueue)
  /\ UNCHANGED <<importQueue, importAllies, importEnemies>>
  /\ UNCHANGED exceptRoster

\* the columns and the arrays of a pending import stay within the bounds
WithinWindow ==
  /\ Len(allies) <= MaxWindowAllies
  /\ \A i \in 1..Len(enemies) : enemies[i].quantity <= MaxWindowQuantity
  /\ importAllies # Null => Len(importAllies[1]) <= MaxWindowAllies
  /\ importEnemies # Null =>
       \A i \in 1..Len(importEnemies[1]) :
         importEnemies[1][i].quantity <= MaxWindowQuantity

NextWindow ==
  \/ \E u \in DropUuids, s \in Sides : DropActor(u, s) /\ WithinWindow'
  \/ \E g \in GroupTable, s \in Sides : DropGroup(g, s) /\ WithinWindow'
  \/ \E u \in DropUuids, m \in {"delta", "set"}, v \in WindowQuantityValues :
       UpdateEnemyQuantity(u, m, v) /\ WithinWindow'
  \/ \E u \in DropUuids, s \in Sides : RemoveEntry(s, u)
  \/ ClearEnemies
  \/ ClearAllies
  \/ Render
  \/ \E f \in EncounterTable : ImportStart(f)
  \/ \E found \in BOOLEAN : ImportStep(found) /\ WithinWindow'
  \/ \E uuids \in SavedTable : LoadSavedStart(uuids)
  \/ \E found \in BOOLEAN : LoadSavedStep(found) /\ WithinWindow'

SpecWindow == Init /\ [][NextWindow]_vars

(***************************************************************************)
(* encounter-actor-factory createEncounterActor and the way back: the      *)
(* enemies column is filled by drops and quantity changes, an encounter    *)
(* actor is made from it, and the actor is dropped on a calculator whose   *)
(* columns are empty, where every actor it names resolves.                 *)
(***************************************************************************)
MaxExportQuantity == 3
ExportUuids == {"pc5", "n3", "n4"}
ExportQuantityValues == {2, 3}

\* membersForFlags: flags[MODULE_ID].enemies of the actor created
membersForFlags(en) ==
  [i \in 1..Len(en) |-> FlagEntry(en[i].uuid, NumOr(en[i].quantity, 1))]

WithinExport ==
  \A i \in 1..Len(enemies) : enemies[i].quantity <= MaxExportQuantity

\* createEncounterFromEnemies -> createEncounterActor: nothing is created
\* without enemies or for a user who is neither GM nor assistant
CreateEncounter(mayCreate) ==
  /\ encounterFlags = Null
  /\ IF enemies = <<>> \/ ~mayCreate
     THEN UNCHANGED <<encounterFlags, exportedRoster>>
     ELSE /\ encounterFlags' = Some(membersForFlags(enemies))
          /\ exportedRoster' = enemies
  /\ UNCHANGED calculatorEmptied
  /\ UNCHANGED exceptExport

\* a calculator window with allies = [] and enemies = []
OpenEmptyCalculator ==
  /\ encounterFlags # Null
  /\ ~calculatorEmptied
  /\ importQueue = <<>>
  /\ calculatorEmptied' = TRUE
  /\ allies' = <<>>
  /\ enemies' = <<>>
  /\ UNCHANGED <<pending, encounterFlags, exportedRoster>>
  /\ UNCHANGED <<diffVars, lootVars, treasureVars, hoardVars, lookupVars,
                 priceVars, generationVars, itemsVars>>

NextRoundTrip ==
  \/ \E u \in ExportUuids :
       encounterFlags = Null /\ DropActor(u, "enemies") /\ WithinExport'
  \/ \E u \in ExportUuids, v \in ExportQuantityValues :
       encounterFlags = Null /\ UpdateEnemyQuantity(u, "set", v)
  \/ \E mayCreate \in BOOLEAN : CreateEncounter(mayCreate)
  \/ OpenEmptyCalculator
  \/ /\ calculatorEmptied
     /\ enemies = <<>>
     /\ ImportStart(encounterFlags[1])
  \/ calculatorEmptied /\ ImportStep(TRUE)

SpecRoundTrip == Init /\ [][NextRoundTrip]_vars

(***************************************************************************)
(* calculateDifficulty as the calculator calls it: the rosters, the target *)
(* tier, the display mode and the ally-NPC weight are drawn from bounded   *)
(* sets, the actions compute the result.                                   *)
(***************************************************************************)
\* Longest allies column and enemies column handed to calculateDifficulty.
MaxParty == 2
MaxDiffEnemies == 2

SeqsUpTo(S, n) == UNION { [1..k -> S] : k \in 0..n }
DistinctUuids(list) ==
  \A i, j \in 1..Len(list) : list[i].uuid = list[j].uuid => i = j

\* a row as updateEnemyQuantity leaves it after setting quantity q
WithQuantity(entry, q) ==
  [entry EXCEPT !.quantity = q, !.totalXp = Some(entry.xp * q)]
\* a row that carries no totalXp (calculateDifficulty then uses xp * quantity)
WithoutTotal(entry, q) == [entry EXCEPT !.quantity = q, !.totalXp = Null]

DiffAllyUuids == {"pc5", "pc5b", "pc0", "n5", "n10", "veh"}
DiffAllyRosters ==
  { al \in SeqsUpTo({ NewEntry(ActorOf(u)) : u \in DiffAllyUuids }, MaxParty) :
      DistinctUuids(al) }

DiffEnemyKinds ==
  { WithQuantity(NewEntry(ActorOf("n3")), q) : q \in {2, 3, 4, 5, 7, 8} }
    \cup { WithQuantity(NewEntry(ActorOf("n4")), 2),
           WithQuantity(NewEntry(ActorOf("n10")), 1),
           WithoutTotal(NewEntry(ActorOf("n5")), 2) }
DiffEnemyRosters ==
  { en \in SeqsUpTo(DiffEnemyKinds, MaxDiffEnemies) : DistinctUuids(en) }

DiffTargetKeys == {"low", "moderate", "high", "deadly"}
DiffDisplayModes == {"dmg", "budget", "other"}
\* allyNpcWeight in twentieths: 0, 0.25 and 0.5
DiffWeights == {0, 5, 10}

InitDifficulty ==
  /\ allies \in DiffAllyRosters
  /\ enemies \in DiffEnemyRosters
  /\ importQueue = <<>>
  /\ importAllies = Null
  /\ importEnemies = Null
  /\ savedQueue = <<>>
  /\ targetDifficultyKey \in DiffTargetKeys
  /\ difficultyDisplayMode \in DiffDisplayModes
  /\ allyNpcWeight \in DiffWeights
  /\ difficulty = Null
  /\ LootIdle
  /\ TreasureIdle
  /\ HoardIdle
  /\ LookupIdle
  /\ PriceIdle
  /\ ExportIdle
  /\ GenerationIdle
  /\ ItemsIdle

\* _prepareContext: difficulty = calculateDifficulty({...})
CalculateDifficulty ==
  /\ difficulty = Null
  /\ difficulty' = Some(calculateDifficulty(allies, enemies, targetDifficultyKey,
                                           difficultyDisplayMode, allyNpcWeight))
  /\ UNCHANGED <<rosterVars, targetDifficultyKey, difficultyDisplayMode,
                 allyNpcWeight>>
  /\ UNCHANGED exceptDiff

\* _onActionSetTargetDifficulty, with the render it asks for
SetTargetDifficulty(diff) ==
  /\ diff \in {"low", "moderate", "high"}
  /\ diff # targetDifficultyKey
  /\ difficulty # Null
  /\ targetDifficultyKey' = diff
  /\ difficulty' = Some(calculateDifficulty(allies, enemies, diff,
                                           difficultyDisplayMode, allyNpcWeight))
  /\ UNCHANGED <<rosterVars, difficultyDisplayMode, allyNpcWeight>>
  /\ UNCHANGED exceptDiff

NextDifficulty ==
  \/ CalculateDifficulty
  \/ \E diff \in DiffTargetKeys : SetTargetDifficulty(diff)

SpecDifficulty == InitDifficulty /\ [][NextDifficulty]_vars

(***************************************************************************)
(* LootAggregator: aggregateLootFromEnemies                                *)
(***************************************************************************)
\* An embedded item: item.uuid ("" when missing), item.name, item.type,
\* item.system.type.value and item.system.properties.
Item(uuid, name, type, subtype, properties) ==
  [uuid |-> uuid, name |-> name, type |-> type, subtype |-> subtype,
   properties |-> properties]

\* system.properties: absent, an Array, or a collection that is no Array
PropsNone == [kind |-> "none", elems |-> <<>>]
PropsArray(elems) == [kind |-> "array", elems |-> elems]
PropsSet(elems) == [kind |-> "set", elems |-> elems]
\* a property given as a string, or as an object with a (nullable) value
Str(s) == [kind |-> "string", value |-> Some(s)]
Obj(v) == [kind |-> "object", value |-> v]

\* String.prototype.toLowerCase on the strings of the model
ToLowerCase(str) ==
  CASE str \in {"Natural", "NATURAL"} -> "natural"
    [] str \in {"Nat", "NAT"} -> "nat"
    [] str = "PP" -> "pp"
    [] str = "Gp" -> "gp"
    [] str = "SP" -> "sp"
    [] OTHER -> str

\* enemyActor.items of the actors of the world
InventoryOf(uuid) ==
  CASE uuid = "n3" ->
         <<Item("i.sword", "sword", "weapon", Some("simpleM"),
                PropsArray(<<Str("fin"), Obj(Null)>>)),
           Item("i.bite", "bite", "weapon", Some("Natural"), PropsNone),
           Item("i.potion", "potion", "consumable", Null, PropsNone),
           Item("i.spell", "spell", "spell", Null, PropsNone)>>
    [] uuid = "n4" ->
         <<Item("i.potion", "potion", "consumable", Null, PropsNone),
           Item("i.claw", "claw", "weapon", Null, PropsArray(<<Str("NAT")>>)),
           Item("i.sword", "sword", "weapon", Some("simpleM"),
                PropsArray(<<Str("fin"), Obj(Null)>>)),
           Item("", "trinket", "loot", Null, PropsNone),
           Item("i.potion", "potion", "consumable", Null, PropsNone)>>
    [] uuid = "n5" ->
         <<Item("i.tail", "tail", "weapon", Some("simpleM"),
                PropsArray(<<Str("ver"), Obj(Some("Natural"))>>)),
           Item("i.horn", "horn", "weapon", Some("martialM"),
                PropsSet(<<Str("nat")>>)),
           Item("i.armor", "armor", "equipment", Null, PropsNone),
           Item("i.feat", "feat", "feat", Null, PropsNone)>>
    [] OTHER -> <<>>

lootTypes ==
  {"weapon", "equipment", "armor", "consumable", "loot", "tool", "container",
   "gear"}

\* isNaturalWeapon comparing without toLowerCase
isNaturalWeapon_CaseSensitive(item) ==
  IF item.type # "weapon" THEN FALSE
  ELSE LET propsArray == IF item.properties.kind = "array"
                         THEN item.properties.elems ELSE <<>>
       IN  \/ OrElse(item.subtype, "") = "natural"
           \/ \E i \in 1..Len(propsArray) :
                /\ propsArray[i].value # Null
                /\ propsArray[i].value[1] \in {"natural", "nat"}

isNaturalWeapon(item) ==
  IF item.type # "weapon" THEN FALSE
  ELSE LET weaponType == ToLowerCase(OrElse(item.subtype, ""))
           propsArray == IF item.properties.kind = "array"
                         THEN item.properties.elems ELSE <<>>
           hasNaturalProperty ==
             \E i \in 1..Len(propsArray) :
               LET raw == propsArray[i].value
               IN  /\ raw # Null
                   /\ raw[1] # ""
                   /\ ToLowerCase(raw[1]) \in {"natural", "nat"}
       IN  weaponType = "natural" \/ hasNaturalProperty

\* repeats taken from the enemy's quantity in every mode
Repeats_AnyMode(enemy, mode) ==
  LET q == NumOr(enemy.quantity, 1)
  IN  IF q < 1 THEN 1 ELSE IF q > MaxQuantity THEN MaxQuantity ELSE q

\* how many times the enemy's inventory counts
Repeats(enemy, mode) ==
  IF mode = "perEnemy"
  THEN LET q == NumOr(enemy.quantity, 1)
       IN  IF q < 1 THEN 1 ELSE IF q > MaxQuantity THEN MaxQuantity ELSE q
  ELSE 1

\* grouped.get(key): the position of the entry in the Map, 0 for undefined
GroupedIndex(g, key) ==
  IF \E i \in 1..Len(g) : g[i].uuid = key
  THEN CHOOSE i \in 1..Len(g) : g[i].uuid = key
  ELSE 0

LootEntry(item, quantity) ==
  [uuid |-> item.uuid, name |-> item.name, type |-> item.type,
   quantity |-> quantity]

\* the loop body with a merge that sets the quantity to the last count
AddItem_Overwrite(g, item, count) ==
  IF item.type \notin lootTypes THEN g
  ELSE IF isNaturalWeapon(item) THEN g
  ELSE IF item.uuid = "" THEN g
  ELSE LET i == GroupedIndex(g, item.uuid)
       IN  IF i # 0
           THEN [g EXCEPT ![i].quantity = Min(MaxQuantity, count)]
           ELSE Append(g, LootEntry(item, Min(MaxQuantity, count)))

\* the loop body with a merge that deletes the key and sets it again
AddItem_Reinsert(g, item, count) ==
  IF item.type \notin lootTypes THEN g
  ELSE IF isNaturalWeapon(item) THEN g
  ELSE IF item.uuid = "" THEN g
  ELSE LET i == GroupedIndex(g, item.uuid)
       IN  IF i # 0
           THEN Append(Splice(g, i),
                       [g[i] EXCEPT !.quantity =
                          Min(MaxQuantity, NumOr(g[i].quantity, 1) + count)])
           ELSE Append(g, LootEntry(item, Min(MaxQuantity, count)))

\* the body of the loop over items
AddItem(g, item, count) ==
  IF item.type \notin lootTypes THEN g
  ELSE IF isNaturalWeapon(item) THEN g
  ELSE IF item.uuid = "" THEN g
  ELSE LET i == GroupedIndex(g, item.uuid)
       IN  IF i # 0
           THEN [g EXCEPT ![i].quantity =
                   Min(MaxQuantity, NumOr(g[i].quantity, 1) + count)]
           ELSE Append(g, LootEntry(item, Min(MaxQuantity, count)))

RECURSIVE AddItems(_, _, _)
\* for (const item of items)
AddItems(g, items, count) ==
  IF items = <<>> THEN g
  ELSE AddItems(AddItem(g, Head(items), count), Tail(items), count)

\* the loop over enemies up to its next await: enemies without uuid are
\* passed over; Len(en) + 1 when the loop is over
NextLootIdx(en, from) ==
  IF \E j \in from..Len(en) : en[j].uuid # ""
  THEN CHOOSE j \in from..Len(en) :
         /\ en[j].uuid # ""
         /\ \A k \in from..(j - 1) : en[k].uuid = ""
  ELSE Len(en) + 1

\* Longest enemies list handed to aggregateLootFromEnemies.
MaxLootEnemies == 2

\* an enemy row whose uuid is missing
WithoutUuid(entry) == [entry EXCEPT !.uuid = ""]

LootEnemyKinds ==
  { WithQuantity(NewEntry(ActorOf("n3")), q) : q \in {0, 1, 2, 60, 120} }
    \cup { WithQuantity(NewEntry(ActorOf("n4")), q) : q \in {3, 60} }
    \cup { WithQuantity(NewEntry(ActorOf("n5")), 2),
           WithQuantity(NewEntry(ActorOf("n10")), 2),
           WithoutUuid(WithQuantity(NewEntry(ActorOf("n4")), 2)) }
LootRosters == SeqsUpTo(LootEnemyKinds, MaxLootEnemies)

LootModes == {"off", "perEnemy", "perActorType"}
\* what an actorResolver call settles with: an Actor document, null, a
\* document of another kind, or a rejection
ResolverOutcomes == {"actor", "null", "other", "throw"}

InitLoot ==
  /\ allies = <<>>
  /\ enemies \in LootRosters
  /\ importQueue = <<>>
  /\ importAllies = Null
  /\ importEnemies = Null
  /\ savedQueue = <<>>
  /\ DiffIdle
  /\ LootIdle
  /\ TreasureIdle
  /\ HoardIdle
  /\ LookupIdle
  /\ PriceIdle
  /\ ExportIdle
  /\ GenerationIdle
  /\ ItemsIdle

\* the promise resolves with Array.from(grouped.values())
LootReturn(g) ==
  /\ lootPc' = "done"
  /\ lootResult' = Some(g)

\* the contents of the array the loop iterates
LootArray == IF lootArray = Null THEN enemies ELSE lootArray[1]

\* the call without the test of mode "off"
AggregateStart_NoOffCheck(mode, resolverIsFunction) ==
  /\ lootPc = "idle"
  /\ lootMode' = mode
  /\ lootSnapshot' = enemies
  /\ LET j == NextLootIdx(enemies, 1)
     IN  IF \/ enemies = <<>>
            \/ ~resolverIsFunction
            \/ j > Len(enemies)
         THEN LootReturn(<<>>) /\ UNCHANGED <<lootIdx, lootEnemy, lootEnemyIn>>
         ELSE /\ lootPc' = "awaiting"
              /\ lootIdx' = j
              /\ lootEnemy' = Some(enemies[j])
              /\ lootEnemyIn' = TRUE
              /\ UNCHANGED lootResult
  /\ UNCHANGED <<grouped, lootCalls, lootArray, mutations>>
  /\ UNCHANGED exceptLoot

\* the call of aggregateLootFromEnemies up to its first await or its return;
\* enemies: this.enemies is handed over as it is, not copied
AggregateStart(mode, resolverIsFunction) ==
  /\ lootPc = "idle"
  /\ lootMode' = mode
  /\ lootSnapshot' = enemies
  /\ LET j == NextLootIdx(enemies, 1)
     IN  IF \/ mode = "off"
            \/ enemies = <<>>
            \/ ~resolverIsFunction
            \/ j > Len(enemies)
         THEN LootReturn(<<>>) /\ UNCHANGED <<lootIdx, lootEnemy, lootEnemyIn>>
         ELSE /\ lootPc' = "awaiting"
              /\ lootIdx' = j
              /\ lootEnemy' = Some(enemies[j])
              /\ lootEnemyIn' = TRUE
              /\ UNCHANGED lootResult
  /\ UNCHANGED <<grouped, lootCalls, lootArray, mutations>>
  /\ UNCHANGED exceptLoot

\* await actorResolver(enemyUuid) settles; the loop runs on to its next
\* await or to the return.  enemy is the object bound before the await, the
\* iterator goes on at the next index of the array as it is now
ResolverSettles(outcome) ==
  /\ lootPc = "awaiting"
  /\ lootCalls' = Append(lootCalls, [index |-> lootIdx, outcome |-> outcome])
  /\ IF outcome = "throw"
     THEN /\ lootPc' = "rejected"
          /\ UNCHANGED <<lootIdx, grouped, lootResult, lootEnemy, lootEnemyIn>>
     ELSE LET enemy == lootEnemy[1]
              g == IF outcome = "actor"
                   THEN AddItems(grouped, InventoryOf(enemy.uuid),
                                 Repeats(enemy, lootMode))
                   ELSE grouped
              j == NextLootIdx(LootArray, lootIdx + 1)
          IN  /\ grouped' = g
              /\ lootIdx' = j
              /\ IF j > Len(LootArray)
                 THEN LootReturn(g) /\ UNCHANGED <<lootEnemy, lootEnemyIn>>
                 ELSE /\ lootEnemy' = Some(LootArray[j])
                      /\ lootEnemyIn' = (lootArray = Null)
                      /\ UNCHANGED <<lootPc, lootResult>>
  /\ UNCHANGED <<lootMode, lootArray, lootSnapshot, mutations>>
  /\ UNCHANGED exceptLoot

NextLoot ==
  \/ \E mode \in LootModes, f \in BOOLEAN : AggregateStart(mode, f)
  \/ \E outcome \in ResolverOutcomes : ResolverSettles(outcome)

SpecLoot == InitLoot /\ [][NextLoot]_vars

(***************************************************************************)
(* The roster handlers of the calculator running while an aggregation of   *)
(* this.enemies waits for actorResolver.  addSingleActorToSide,            *)
(* updateEnemyQuantity and removeEntryFromList change the array and its    *)
(* objects in place; _onActionClearEnemies assigns a new array.            *)
(***************************************************************************)
\* Roster changes made while one aggregation is pending.
MaxMutations == 2
\* Longest enemies list at the call of the aggregation.
MaxLiveEnemies == 2

LiveUuids == {"n3", "n4", "n5"}
LiveEnemyKinds ==
  { WithQuantity(NewEntry(ActorOf("n3")), 2),
    WithQuantity(NewEntry(ActorOf("n4")), 3),
    WithQuantity(NewEntry(ActorOf("n5")), 1) }
LiveRosters ==
  { en \in SeqsUpTo(LiveEnemyKinds, MaxLiveEnemies) : DistinctUuids(en) }
LiveQuantityValues == {-1, 1, 5}

InitLootLive ==
  /\ allies = <<>>
  /\ enemies \in LiveRosters
  /\ importQueue = <<>>
  /\ importAllies = Null
  /\ importEnemies = Null
  /\ savedQueue = <<>>
  /\ DiffIdle
  /\ LootIdle
  /\ TreasureIdle
  /\ HoardIdle
  /\ LookupIdle
  /\ PriceIdle
  /\ ExportIdle
  /\ GenerationIdle
  /\ ItemsIdle

\* What a handler that leaves newEnemies in this.enemies means to the
\* pending aggregation: replaced tells that this.enemies is a new array
AliasAfter(newEnemies, replaced) ==
  /\ lootArray' = IF lootArray = Null /\ replaced THEN Some(enemies)
                  ELSE lootArray
  /\ IF /\ lootEnemyIn
        /\ ~replaced
        /\ FindIndex(newEnemies, lootEnemy[1].uuid) # 0
     THEN /\ lootEnemy' =
               Some(newEnemies[FindIndex(newEnemies, lootEnemy[1].uuid)])
          /\ lootEnemyIn' = TRUE
     ELSE /\ lootEnemy' = lootEnemy
          /\ lootEnemyIn' = FALSE

\* a handler running between the call of actorResolver and its settling
WhilePending(newEnemies, replaced) ==
  /\ mutations < MaxMutations
  /\ mutations' = mutations + 1
  /\ enemies' = newEnemies
  /\ AliasAfter(newEnemies, replaced)
  /\ UNCHANGED <<lootMode, lootPc, lootIdx, grouped, lootCalls, lootResult,
                 lootSnapshot>>
  /\ UNCHANGED <<allies, pending>>
  /\ UNCHANGED <<diffVars, treasureVars, hoardVars, lookupVars, priceVars,
                 exportVars, generationVars, itemsVars>>

\* _onDrop of an NPC on the enemies column
LiveDropEnemy(uuid) ==
  /\ lootPc = "awaiting"
  /\ WhilePending(addSingleActorToSide(allies, enemies, ActorOf(uuid),
                                       "enemies").enemies, FALSE)

\* the quantity buttons and the quantity input
LiveUpdateEnemyQuantity(uuid, mode, value) ==
  /\ lootPc = "awaiting"
  /\ FindIndex(enemies, uuid) # 0
  /\ WhilePending(updateEnemyQuantity(enemies, uuid, mode, value), FALSE)

\* _onActionRemoveEntry
LiveRemoveEntry(uuid) ==
  /\ lootPc = "awaiting"
  /\ FindIndex(enemies, uuid) # 0
  /\ WhilePending(removeEntryFromList(enemies, uuid), FALSE)

\* _onActionClearEnemies: this.enemies = []
LiveClearEnemies ==
  /\ lootPc = "awaiting"
  /\ WhilePending(<<>>, TRUE)

NextLootLive ==
  \/ \E mode \in LootModes : AggregateStart(mode, TRUE)
  \/ ResolverSettles("actor")
  \/ \E u \in LiveUuids : LiveDropEnemy(u)
  \/ \E u \in LiveUuids, m \in {"delta", "set"}, v \in LiveQuantityValues :
       LiveUpdateEnemyQuantity(u, m, v)
  \/ \E u \in LiveUuids : LiveRemoveEntry(u)
  \/ LiveClearEnemies

SpecLootLive == InitLootLive /\ [][NextLootLive]_vars

(***************************************************************************)
(* TreasureGenerator: generateIndividualTreasure                           *)
(***************************************************************************)
TreasureConfig(formula, average, currency) ==
  [formula |-> formula, average |-> average, currency |-> currency]

\* getIndividualTreasureConfig with < where the code has <=
getIndividualTreasureConfig_StrictEdges(cr) ==
  IF cr < 4 THEN TreasureConfig("3d6", 10, "gp")
  ELSE IF cr < 10 THEN TreasureConfig("2d8*10", 90, "gp")
  ELSE IF cr < 16 THEN TreasureConfig("2d10*10", 110, "pp")
  ELSE TreasureConfig("2d8*100", 900, "pp")

getIndividualTreasureConfig(cr) ==
  IF cr <= 4 THEN TreasureConfig("3d6", 10, "gp")
  ELSE IF cr <= 10 THEN TreasureConfig("2d8*10", 90, "gp")
  ELSE IF cr <= 16 THEN TreasureConfig("2d10*10", 110, "pp")
  ELSE TreasureConfig("2d8*100", 900, "pp")

\* { platinum, gold, silver: 0, copper: 0, electrum: 0 }
TreasureResult(platinum, gold) ==
  [platinum |-> platinum, gold |-> gold, silver |-> 0, copper |-> 0,
   electrum |-> 0]

\* Math.max(0, Math.floor(total)) of both totals
FinalTreasure(pp, gp) == TreasureResult(Max(0, pp), Max(0, gp))

RECURSIVE AverageTotals(_, _, _)
\* the loop over enemies in average mode; gives <<totalGp, totalPp>>
AverageTotals(en, gp, pp) ==
  IF en = <<>> THEN <<gp, pp>>
  ELSE LET enemy == Head(en)
       IN  IF IsNull(enemy.cr) THEN AverageTotals(Tail(en), gp, pp)
           ELSE LET cfg == getIndividualTreasureConfig(enemy.cr[1])
                    totalForEnemy == cfg.average * enemy.quantity
                IN  IF cfg.currency = "pp"
                    THEN AverageTotals(Tail(en), gp, pp + totalForEnemy)
                    ELSE AverageTotals(Tail(en), gp + totalForEnemy, pp)

\* the loop over enemies in roll mode up to its next await: rows without
\* CR are passed over; Len(en) + 1 when the loop is over
NextRollIdx(en, from) ==
  IF \E j \in from..Len(en) : ~IsNull(en[j].cr)
  THEN CHOOSE j \in from..Len(en) :
         /\ ~IsNull(en[j].cr)
         /\ \A k \in from..(j - 1) : IsNull(en[k].cr)
  ELSE Len(en) + 1

\* the bare formula whatever the quantity
RollExpr_Bare(enemy) ==
  [formula |-> getIndividualTreasureConfig(enemy.cr[1]).formula,
   times |-> Null]

\* quantity > 1 ? `(${formula})*${quantity}` : formula
RollExpr(enemy) ==
  LET formula == getIndividualTreasureConfig(enemy.cr[1]).formula
  IN  IF enemy.quantity > 1
      THEN [formula |-> formula, times |-> Some(enemy.quantity)]
      ELSE [formula |-> formula, times |-> Null]

\* Longest enemies list handed to generateIndividualTreasure.
MaxTreasureEnemies == 2

TreasureEnemyKinds ==
  { WithQuantity(NewEntry(ActorOf(u)), q) :
      u \in {"n3", "n4", "n5", "n10", "n11", "n16", "n17", "veh"},
      q \in {1, 2} }
    \cup { WithQuantity(NewEntry(ActorOf(u)), 99) : u \in {"n3", "n17"} }
TreasureRosters == SeqsUpTo(TreasureEnemyKinds, MaxTreasureEnemies)

TreasureModes == {"average", "roll"}
\* what rollEvaluator may resolve with
RollValues == {-5, 0, 7}

InitTreasure ==
  /\ allies = <<>>
  /\ enemies \in TreasureRosters
  /\ importQueue = <<>>
  /\ importAllies = Null
  /\ importEnemies = Null
  /\ savedQueue = <<>>
  /\ DiffIdle
  /\ LootIdle
  /\ TreasureIdle
  /\ HoardIdle
  /\ LookupIdle
  /\ PriceIdle
  /\ ExportIdle
  /\ GenerationIdle
  /\ ItemsIdle

TreasureReturn(result) ==
  /\ treasurePc' = "done"
  /\ treasure' = Some(result)

\* the call of generateIndividualTreasure up to its first await or return
TreasureStart(mode, evaluatorIsFunction) ==
  /\ treasurePc = "idle"
  /\ treasureMode' = mode
  /\ rollEvaluator' = (IF evaluatorIsFunction THEN "function" ELSE "none")
  /\ UNCHANGED rollResults
  /\ IF enemies = <<>> \/ (mode = "roll" /\ ~evaluatorIsFunction)
     THEN /\ TreasureReturn(TreasureResult(0, 0))
          /\ UNCHANGED <<treasureIdx, totalGp, totalPp, rollLog>>
     ELSE IF mode = "average"
     THEN LET t == AverageTotals(enemies, 0, 0)
          IN  /\ totalGp' = t[1]
              /\ totalPp' = t[2]
              /\ TreasureReturn(FinalTreasure(t[2], t[1]))
              /\ UNCHANGED <<treasureIdx, rollLog>>
     ELSE LET j == NextRollIdx(enemies, 1)
          IN  /\ treasureIdx' = j
              /\ UNCHANGED <<totalGp, totalPp>>
              /\ IF j > Len(enemies)
                 THEN TreasureReturn(FinalTreasure(0, 0)) /\ UNCHANGED rollLog
                 ELSE /\ treasurePc' = "awaiting"
                      /\ rollLog' = Append(rollLog, RollExpr(enemies[j]))
                      /\ UNCHANGED treasure
  /\ UNCHANGED exceptTreasure

\* the await wrapped in a try/catch that counts a rejection as 0
RollSettles_Swallow(rolled) ==
  /\ treasurePc = "awaiting"
  /\ rollResults' = Append(rollResults, rolled)
  /\ LET cfg == getIndividualTreasureConfig(enemies[treasureIdx].cr[1])
         v == OrElse(rolled, 0)
         gp == IF cfg.currency = "pp" THEN totalGp ELSE totalGp + v
         pp == IF cfg.currency = "pp" THEN totalPp + v ELSE totalPp
         j == NextRollIdx(enemies, treasureIdx + 1)
     IN  /\ totalGp' = gp
         /\ totalPp' = pp
         /\ treasureIdx' = j
         /\ IF j > Len(enemies)
            THEN TreasureReturn(FinalTreasure(pp, gp)) /\ UNCHANGED rollLog
            ELSE /\ rollLog' = Append(rollLog, RollExpr(enemies[j]))
                 /\ UNCHANGED <<treasurePc, treasure>>
  /\ UNCHANGED <<treasureMode, rollEvaluator>>
  /\ UNCHANGED exceptTreasure

\* await rollEvaluator(expr) settles: rolled is Null for a rejection
RollSettles(rolled) ==
  /\ treasurePc = "awaiting"
  /\ rollResults' = Append(rollResults, rolled)
  /\ IF IsNull(rolled)
     THEN /\ treasurePc' = "rejected"
          /\ UNCHANGED <<treasureIdx, totalGp, totalPp, rollLog, treasure>>
     ELSE LET cfg == getIndividualTreasureConfig(enemies[treasureIdx].cr[1])
              gp == IF cfg.currency = "pp" THEN totalGp ELSE totalGp + rolled[1]
              pp == IF cfg.currency = "pp" THEN totalPp + rolled[1] ELSE totalPp
              j == NextRollIdx(enemies, treasureIdx + 1)
          IN  /\ totalGp' = gp
              /\ totalPp' = pp
              /\ treasureIdx' = j
              /\ IF j > Len(enemies)
                 THEN TreasureReturn(FinalTreasure(pp, gp)) /\ UNCHANGED rollLog
                 ELSE /\ rollLog' = Append(rollLog, RollExpr(enemies[j]))
                      /\ UNCHANGED <<treasurePc, treasure>>
  /\ UNCHANGED <<treasureMode, rollEvaluator>>
  /\ UNCHANGED exceptTreasure

NextTreasure ==
  \/ \E mode \in TreasureModes, f \in BOOLEAN : TreasureStart(mode, f)
  \/ \E v \in RollValues : RollSettles(Some(v))
  \/ RollSettles(Null)

SpecTreasure == InitTreasure /\ [][NextTreasure]_vars

(***************************************************************************)
(* TreasureGenerator: generateTreasureHoard                                *)
(***************************************************************************)
HoardConfig(moneyFormula, moneyAverage, magicItemsFormula) ==
  [moneyFormula |-> moneyFormula, moneyAverage |-> moneyAverage,
   magicItemsFormula |-> magicItemsFormula]

\* getTreasureHoardConfig with < where the code has <=
getTreasureHoardConfig_StrictEdges(maxCr) ==
  IF maxCr < 4 THEN HoardConfig("2d4*100", 500, "1d4-1")
  ELSE IF maxCr < 10 THEN HoardConfig("8d10*100", 4400, "1d3")
  ELSE IF maxCr < 16 THEN HoardConfig("8d8*1000", 36000, "1d4")
  ELSE HoardConfig("6d10*10000", 330000, "1d6")

getTreasureHoardConfig(maxCr) ==
  IF maxCr <= 4 THEN HoardConfig("2d4*100", 500, "1d4-1")
  ELSE IF maxCr <= 10 THEN HoardConfig("8d10*100", 4400, "1d3")
  ELSE IF maxCr <= 16 THEN HoardConfig("8d8*1000", 36000, "1d4")
  ELSE HoardConfig("6d10*10000", 330000, "1d6")

\* { platinum: 0, gold, silver: 0, copper: 0, electrum: 0, magicItemsCount }
\* with Math.max(0, Math.floor(...)) on gold and magicItemsCount
HoardResult(gold, magicCount) ==
  [platinum |-> 0, gold |-> Max(0, gold), silver |-> 0, copper |-> 0,
   electrum |-> 0, magicItemsCount |-> Max(0, magicCount)]

\* getEnemiesForTreasure: the CRs of the rows that have one
RECURSIVE TreasureCrs(_)
TreasureCrs(en) ==
  IF en = <<>> THEN {}
  ELSE (IF IsNull(Head(en).cr) \/ Head(en).cr[1] < 0 THEN {}
        ELSE {Head(en).cr[1]}) \cup TreasureCrs(Tail(en))

\* Math.max(...enemies.map((e) => e.cr))
MaxOf(S) == CHOOSE m \in S : \A x \in S : x <= m

\* Longest enemies list whose highest CR is handed to generateTreasureHoard.
MaxHoardEnemies == 2

HoardEnemyKinds ==
  { NewEntry(ActorOf(u)) :
      u \in {"n2", "n3", "n4", "n5", "n10", "n11", "n12", "n16", "n17", "veh"} }
HoardRosters == SeqsUpTo(HoardEnemyKinds, MaxHoardEnemies)

\* maxCr as generateTreasureHoardForDialog computes it; without an enemy
\* that has a CR the dialog makes no call, and the values the function
\* guards against (null, a negative number) stand in
InitHoard ==
  /\ allies = <<>>
  /\ enemies \in HoardRosters
  /\ importQueue = <<>>
  /\ importAllies = Null
  /\ importEnemies = Null
  /\ savedQueue = <<>>
  /\ DiffIdle
  /\ LootIdle
  /\ TreasureIdle
  /\ hoardMaxCr \in (IF TreasureCrs(enemies) = {} THEN {Null, Some(-1)}
                     ELSE {Some(MaxOf(TreasureCrs(enemies)))})
  /\ hoardMode = "average"
  /\ hoardPc = "idle"
  /\ goldTotal = 0
  /\ hoardLog = <<>>
  /\ hoard = Null
  /\ hoardResults = <<>>
  /\ LookupIdle
  /\ PriceIdle
  /\ ExportIdle
  /\ GenerationIdle
  /\ ItemsIdle

HoardReturn(result) ==
  /\ hoardPc' = "done"
  /\ hoard' = Some(result)

\* the call of generateTreasureHoard up to its first await or its return
HoardStart(mode, evaluatorIsFunction) ==
  /\ hoardPc = "idle"
  /\ hoardMode' = mode
  /\ IF \/ IsNull(hoardMaxCr)
        \/ hoardMaxCr[1] < 0
        \/ (mode = "roll" /\ ~evaluatorIsFunction)
     THEN /\ HoardReturn(HoardResult(0, 0))
          /\ UNCHANGED <<goldTotal, hoardLog>>
     ELSE LET cfg == getTreasureHoardConfig(hoardMaxCr[1])
          IN  IF mode = "average"
              THEN /\ goldTotal' = cfg.moneyAverage
                   /\ HoardReturn(HoardResult(cfg.moneyAverage, 0))
                   /\ UNCHANGED hoardLog
              ELSE /\ hoardPc' = "awaitMoney"
                   /\ hoardLog' = Append(hoardLog, cfg.moneyFormula)
                   /\ UNCHANGED <<goldTotal, hoard>>
  /\ UNCHANGED <<hoardMaxCr, hoardResults>>
  /\ UNCHANGED exceptHoard

\* await rollEvaluator(cfg.moneyFormula) settles: rolled is Null for a
\* rejection; otherwise the magic items formula is handed over next
HoardMoneySettles(rolled) ==
  /\ hoardPc = "awaitMoney"
  /\ hoardResults' = Append(hoardResults, rolled)
  /\ IF IsNull(rolled)
     THEN /\ hoardPc' = "rejected"
          /\ UNCHANGED <<goldTotal, hoardLog>>
     ELSE /\ goldTotal' = rolled[1]
          /\ hoardPc' = "awaitMagic"
          /\ hoardLog' = Append(hoardLog,
               getTreasureHoardConfig(hoardMaxCr[1]).magicItemsFormula)
  /\ UNCHANGED <<hoardMaxCr, hoardMode, hoard>>
  /\ UNCHANGED exceptHoard

\* await rollEvaluator(cfg.magicItemsFormula) settles
HoardMagicSettles(rolled) ==
  /\ hoardPc = "awaitMagic"
  /\ hoardResults' = Append(hoardResults, rolled)
  /\ IF IsNull(rolled)
     THEN hoardPc' = "rejected" /\ UNCHANGED hoard
     ELSE HoardReturn(HoardResult(goldTotal, rolled[1]))
  /\ UNCHANGED <<hoardMaxCr, hoardMode, goldTotal, hoardLog>>
  /\ UNCHANGED exceptHoard

NextHoard ==
  \/ \E mode \in TreasureModes, f \in BOOLEAN : HoardStart(mode, f)
  \/ \E v \in RollValues : HoardMoneySettles(Some(v))
  \/ HoardMoneySettles(Null)
  \/ \E v \in RollValues : HoardMagicSettles(Some(v))
  \/ HoardMagicSettles(Null)

SpecHoard == InitHoard /\ [][NextHoard]_vars

(***************************************************************************)
(* Both generators at work on one roster, as the dialog's two buttons     *)
(* start them.                                                             *)
(***************************************************************************)
\* Longest enemies list both generators work on together.
MaxGenerateEnemies == 2

GenerateEnemyKinds ==
  { WithQuantity(NewEntry(ActorOf("n3")), 1),
    WithQuantity(NewEntry(ActorOf("n4")), 2),
    WithQuantity(NewEntry(ActorOf("n11")), 1),
    WithQuantity(NewEntry(ActorOf("n17")), 2),
    WithQuantity(NewEntry(ActorOf("veh")), 1) }
GenerateRosters == SeqsUpTo(GenerateEnemyKinds, MaxGenerateEnemies)

InitGenerate ==
  /\ allies = <<>>
  /\ enemies \in GenerateRosters
  /\ importQueue = <<>>
  /\ importAllies = Null
  /\ importEnemies = Null
  /\ savedQueue = <<>>
  /\ DiffIdle
  /\ LootIdle
  /\ TreasureIdle
  /\ hoardMaxCr \in (IF TreasureCrs(enemies) = {} THEN {Null, Some(-1)}
                     ELSE {Some(MaxOf(TreasureCrs(enemies)))})
  /\ hoardMode = "average"
  /\ hoardPc = "idle"
  /\ goldTotal = 0
  /\ hoardLog = <<>>
  /\ hoard = Null
  /\ hoardResults = <<>>
  /\ LookupIdle
  /\ PriceIdle
  /\ ExportIdle
  /\ GenerationIdle
  /\ ItemsIdle

NextGenerate == NextTreasure \/ NextHoard

SpecGenerate == InitGenerate /\ [][NextGenerate]_vars

(***************************************************************************)
(* EncounterCreateDialog: the currency fields and the two generate buttons *)
(* (treasure-handler.js).  A handler is followed from the click through    *)
(* the mode prompt and the generator to the assignment of the result.      *)
(***************************************************************************)
Currency(platinum, gold, silver, copper, electrum) ==
  [platinum |-> platinum, gold |-> gold, silver |-> silver,
   copper |-> copper, electrum |-> electrum]

\* Math.max(0, Math.floor(Number(raw ?? d) || d)) with d = 0, for an integer
normalizeNumberInput(raw) == Max(0, raw)

\* the currency a handler leaves, with the silver that was there before
GeneratedCurrency_KeepsSilver(before, result) ==
  Currency(result.platinum, result.gold, before.silver, result.copper,
           result.electrum)

\* dialog._platinum = result.platinum ... dialog._electrum = result.electrum
GeneratedCurrency(before, result) ==
  Currency(result.platinum, result.gold, result.silver, result.copper,
           result.electrum)

\* Longest enemies list of the calculator the dialog belongs to.
MaxDialogEnemies == 2

DialogEnemyKinds ==
  { WithQuantity(NewEntry(ActorOf("n3")), 1),
    WithQuantity(NewEntry(ActorOf("n17")), 2),
    WithQuantity(NewEntry(ActorOf("veh")), 1) }
DialogRosters == SeqsUpTo(DialogEnemyKinds, MaxDialogEnemies)

\* the defaults of gold, silver and copper in game.settings
DefaultCurrencies == { Currency(0, 0, 0, 0, 0), Currency(0, 50, 20, 10, 0) }
\* values of the five inputs of the form as the user may leave them
TypedForms == { Currency(1, 2, 3, 4, 5), Currency(0, -2, 0, 0, 0) }
CurrencyKeys == {"platinum", "gold", "silver", "copper", "electrum"}
\* the dice buttons tried, and what one may roll
RolledKeys == {"platinum", "silver"}
CurrencyRolls == {9}
\* what the rollEvaluator of the handlers resolves with:
\* Math.max(0, Math.floor(roll.total ?? 0))
DialogRollValues == {0, 7}

\* the fields the generate handlers write
DialogState ==
  [currency |-> dialogCurrency[1], magicItemsCount |-> dialogMagicItemsCount]

\* positions at which no generate handler is running: none has run since
\* the fields were last edited, or the last one ended this way
GenerationEnded == {"idle", "noCr", "cancelled", "rejected", "done"}

\* the dialog after its first render: _prepareContext has put the defaults
\* into the undefined fields
InitGeneration ==
  /\ allies = <<>>
  /\ enemies \in DialogRosters
  /\ importQueue = <<>>
  /\ importAllies = Null
  /\ importEnemies = Null
  /\ savedQueue = <<>>
  /\ DiffIdle
  /\ LootIdle
  /\ TreasureIdle
  /\ HoardIdle
  /\ LookupIdle
  /\ PriceIdle
  /\ ExportIdle
  /\ dialogCurrency \in { Some(c) : c \in DefaultCurrencies }
  /\ dialogMagicItemsCount = 0
  /\ generationPc = "idle"
  /\ generationKind = "none"
  /\ generationMode = Null
  /\ currencyBefore = Null
  /\ ItemsIdle

\* a return of the handler that writes zeros into the fields
GenerationReturns_Zeroes(outcome) ==
  /\ generationPc' = outcome
  /\ dialogCurrency' = Some(Currency(0, 0, 0, 0, 0))
  /\ dialogMagicItemsCount' = 0

\* a return (or a rejection) of the handler before its assignments
GenerationReturns(outcome) ==
  /\ generationPc' = outcome
  /\ UNCHANGED <<dialogCurrency, dialogMagicItemsCount>>

\* the edit of a field is seen by a handler that runs; one that has ended
\* is no longer the last thing that happened to the fields
AfterEdit(newCurrency) ==
  /\ dialogCurrency' = Some(newCurrency)
  /\ IF generationPc \in GenerationEnded
     THEN generationPc' = "idle" /\ UNCHANGED currencyBefore
     ELSE /\ currencyBefore' =
               Some([currencyBefore[1] EXCEPT !.currency = newCurrency])
          /\ UNCHANGED generationPc
  /\ UNCHANGED <<dialogMagicItemsCount, generationKind, generationMode>>
  /\ UNCHANGED exceptGeneration

\* onCurrencyFieldChanged: _readFormValues takes the five inputs
CurrencyFieldChanged(form) ==
  AfterEdit(Currency(normalizeNumberInput(form.platinum),
                     normalizeNumberInput(form.gold),
                     normalizeNumberInput(form.silver),
                     normalizeNumberInput(form.copper),
                     normalizeNumberInput(form.electrum)))

\* onClickRollCurrencyButton once its roll is evaluated: setCurrencyValue
SetCurrencyValue(currencyKey, value) ==
  AfterEdit([dialogCurrency[1] EXCEPT ![currencyKey] = value])

\* generateIndividualTreasureForDialog / generateTreasureHoardForDialog from
\* the click to await promptTreasureMode(kind), or to the return when no
\* enemy has a CR; the generator's call frame is a new one
GenerationRequest(kind) ==
  /\ generationPc \in GenerationEnded
  /\ generationKind' = kind
  /\ generationMode' = Null
  /\ currencyBefore' = Some(DialogState)
  /\ treasureMode' = "average"
  /\ treasurePc' = "idle"
  /\ treasureIdx' = 0
  /\ totalGp' = 0
  /\ totalPp' = 0
  /\ rollLog' = <<>>
  /\ treasure' = Null
  /\ rollEvaluator' = "function"
  /\ rollResults' = <<>>
  /\ hoardMode' = "average"
  /\ hoardPc' = "idle"
  /\ goldTotal' = 0
  /\ hoardLog' = <<>>
  /\ hoard' = Null
  /\ hoardResults' = <<>>
  /\ IF TreasureCrs(enemies) = {}
     THEN /\ GenerationReturns("noCr")
          /\ hoardMaxCr' = Null
     ELSE /\ generationPc' = "prompt"
          /\ hoardMaxCr' = (IF kind = "hoard"
                            THEN Some(MaxOf(TreasureCrs(enemies))) ELSE Null)
          /\ UNCHANGED <<dialogCurrency, dialogMagicItemsCount>>
  /\ UNCHANGED <<rosterVars, diffVars, lootVars, lookupVars, priceVars,
                 exportVars, itemsVars>>

\* TreasureChoiceDialog._resolveAndClose(value): "roll", "average" or null;
\* if (!mode) return
PromptResolves(mode) ==
  /\ generationPc = "prompt"
  /\ generationMode' = mode
  /\ IF IsNull(mode)
     THEN GenerationReturns("cancelled")
     ELSE /\ generationPc' = "chosen"
          /\ UNCHANGED <<dialogCurrency, dialogMagicItemsCount>>
  /\ UNCHANGED <<generationKind, currencyBefore>>
  /\ UNCHANGED exceptGeneration

\* the generator is called with the mode and the handler's rollEvaluator
GeneratorCalled ==
  /\ generationPc = "chosen"
  /\ IF generationKind = "individual"
     THEN TreasureStart(generationMode[1], TRUE)
     ELSE HoardStart(generationMode[1], TRUE)

\* what await generateIndividualTreasure(...) / generateTreasureHoard(...)
\* resolved with
GenerationResult ==
  IF generationKind = "individual" THEN treasure[1] ELSE hoard[1]

\* the assignments after the await, once the generator has resolved
GenerationAssigns ==
  /\ generationPc = "chosen"
  /\ IF generationKind = "individual"
     THEN treasurePc = "done" ELSE hoardPc = "done"
  /\ generationPc' = "done"
  /\ dialogCurrency' =
       Some(GeneratedCurrency(dialogCurrency[1], GenerationResult))
  /\ dialogMagicItemsCount' =
       (IF generationKind = "hoard" THEN GenerationResult.magicItemsCount
        ELSE dialogMagicItemsCount)
  /\ UNCHANGED <<generationKind, generationMode, currencyBefore>>
  /\ UNCHANGED exceptGeneration

\* the generator rejected: the await throws and the handler ends there
GenerationRejects ==
  /\ generationPc = "chosen"
  /\ IF generationKind = "individual"
     THEN treasurePc = "rejected" ELSE hoardPc = "rejected"
  /\ GenerationReturns("rejected")
  /\ UNCHANGED <<generationKind, generationMode, currencyBefore>>
  /\ UNCHANGED exceptGeneration

NextGeneration ==
  \/ \E form \in TypedForms : CurrencyFieldChanged(form)
  \/ \E k \in RolledKeys, v \in CurrencyRolls : SetCurrencyValue(k, v)
  \/ \E kind \in {"individual", "hoard"} : GenerationRequest(kind)
  \/ \E mode \in TreasureModes : PromptResolves(Some(mode))
  \/ PromptResolves(Null)
  \/ GeneratorCalled
  \/ \E v \in DialogRollValues : RollSettles(Some(v))
  \/ RollSettles(Null)
  \/ \E v \in DialogRollValues : HoardMoneySettles(Some(v))
  \/ HoardMoneySettles(Null)
  \/ \E v \in DialogRollValues : HoardMagicSettles(Some(v))
  \/ HoardMagicSettles(Null)
  \/ GenerationAssigns
  \/ GenerationRejects

SpecGeneration == InitGeneration /\ [][NextGeneration]_vars

(***************************************************************************)
(* EncounterCreateDialog: the item list (items-tab-handler.js with         *)
(* item-quantity.service.js) and its auto-loot initialisation.  An entry   *)
(* of _items is kept by its _id, uuid and quantity.                        *)
(***************************************************************************)
MAX_ITEM_QUANTITY == 99

ItemEntry(id, uuid, quantity) ==
  [id |-> id, uuid |-> uuid, quantity |-> quantity]

\* items.find((it) => it._id === itemId), as an index; 0 for undefined
ItemIndexById(list, itemId) ==
  IF \E i \in 1..Len(list) : list[i].id = itemId
  THEN CHOOSE i \in 1..Len(list) :
         /\ list[i].id = itemId
         /\ \A j \in 1..(i - 1) : list[j].id # itemId
  ELSE 0

\* dialog._items.find((it) => it.uuid === item.uuid), as an index
ItemIndexByUuid(list, uuid) ==
  IF \E i \in 1..Len(list) : list[i].uuid = uuid
  THEN CHOOSE i \in 1..Len(list) :
         /\ list[i].uuid = uuid
         /\ \A j \in 1..(i - 1) : list[j].uuid # uuid
  ELSE 0

\* items.filter((it) => it._id !== itemId)
removeItemById(list, itemId) == SelectSeq(list, LAMBDA it : it.id # itemId)

\* result.items of updateItemQuantity(items, itemId, mode, value)
updateItemQuantity(list, itemId, mode, value) ==
  LET i == ItemIndexById(list, itemId)
  IN  IF i = 0 THEN list
      ELSE LET current == NumOr(list[i].quantity, 1)
               q == IF mode = "delta" THEN current + value
                    ELSE IF mode = "set" THEN value ELSE current
           IN  IF q <= 0 THEN removeItemById(list, itemId)
               ELSE [list EXCEPT
                       ![i].quantity = Max(1, Min(MAX_ITEM_QUANTITY, q))]

\* validateItemQuantity(parsed, items, itemId); parsed is Null for NaN
validateItemQuantity(parsed, list, itemId) ==
  IF IsNull(parsed)
  THEN LET i == ItemIndexById(list, itemId)
       IN  [normalized |-> (IF i = 0 THEN 1 ELSE NumOr(list[i].quantity, 1)),
            shouldRemove |-> FALSE]
  ELSE IF parsed[1] <= 0
  THEN [normalized |-> parsed[1], shouldRemove |-> TRUE]
  ELSE [normalized |-> Max(1, Min(MAX_ITEM_QUANTITY, parsed[1])),
        shouldRemove |-> FALSE]

\* input.value of a quantity field as the user may leave it: cleared,
\* letters, and numerals
RawQuantities == {"", "abc", "0", "2", "150"}

\* Number(raw): the empty string converts to 0, letters to NaN (Null)
NumberOfRaw(raw) ==
  CASE raw = "" -> Some(0)
    [] raw = "abc" -> Null
    [] raw = "0" -> Some(0)
    [] raw = "2" -> Some(2)
    [] raw = "150" -> Some(150)

\* the body of onItemQuantityInputChange: the new dialog._items
QuantityInput(list, itemId, raw) ==
  LET validation == validateItemQuantity(NumberOfRaw(raw), list, itemId)
  IN  IF validation.shouldRemove THEN removeItemById(list, itemId)
      ELSE updateItemQuantity(list, itemId, "set", validation.normalized)

\* onDropItem after the await: existing.quantity = Math.min(99, current + 1)
\* or dialog._items.push(entry)
DropMerged(list, uuid, localId) ==
  LET i == ItemIndexByUuid(list, uuid)
  IN  IF i # 0
      THEN [list EXCEPT ![i].quantity = Min(99, NumOr(list[i].quantity, 1) + 1)]
      ELSE Append(list, ItemEntry(localId, uuid, 1))

\* maybeInitializeAutoLootItems after the await, without the second look
\* at dialog._items
AutoLootAssigned_Always(list, autoLootItems) ==
  IF autoLootItems = <<>> THEN list ELSE autoLootItems

\* maybeInitializeAutoLootItems after the await: the new dialog._items
AutoLootAssigned(list, autoLootItems) ==
  IF autoLootItems = <<>> THEN list
  ELSE IF list = <<>> THEN autoLootItems
  ELSE list

\* Most _prepareContext invocations (renders) of one dialog.
MaxContexts == 2
\* Most item drops that await fromUuid at one time.
MaxPendingDrops == 2
\* Most local ids onDropItem makes.
MaxLocalIds == 2
\* Quantities from 1 to LowQuantity and from MAX_ITEM_QUANTITY - LowQuantity
\* on are followed; the clicks from one range to the other are left out.
LowQuantity == 2

ItemUuids == {"sword", "potion"}
\* the lists getAutoLootItemsFromEnemies may resolve with; their _ids
AutoLootIds == {1, 2}
AutoLootLists ==
  { <<>>,
    <<ItemEntry(1, "sword", 98)>>,
    <<ItemEntry(1, "potion", 1), ItemEntry(2, "sword", 2)>> }
\* data-item-id of the control the user acts on: an _id of the list, or
\* one of a row that is gone
ItemIds == 1..(2 + MaxLocalIds)

WithinItems ==
  \A i \in 1..Len(dialogItems) :
    \/ dialogItems[i].quantity <= LowQuantity
    \/ dialogItems[i].quantity >= MAX_ITEM_QUANTITY - LowQuantity

\* what a handler that finished leaves in lastStep
Step(kind, itemId, uuid, raw, delta) ==
  Some([kind |-> kind, before |-> dialogItems, id |-> itemId, uuid |-> uuid,
        raw |-> raw, delta |-> delta])

\* a dialog as constructed, on a calculator with or without enemies
InitItems ==
  /\ allies = <<>>
  /\ enemies \in {<<>>, <<NewEntry(ActorOf("n3"))>>}
  /\ importQueue = <<>>
  /\ importAllies = Null
  /\ importEnemies = Null
  /\ savedQueue = <<>>
  /\ DiffIdle
  /\ LootIdle
  /\ TreasureIdle
  /\ HoardIdle
  /\ LookupIdle
  /\ PriceIdle
  /\ ExportIdle
  /\ GenerationIdle
  /\ ItemsIdle

\* _prepareContext up to its first await: with the flag unset it calls
\* maybeInitializeAutoLootItems, which returns at once or goes on to
\* await dialog.calculator.getAutoLootItemsFromEnemies()
PrepareContext ==
  /\ Len(contexts) < MaxContexts
  /\ IF autoLootInitialized
     THEN contexts' = Append(contexts, "done") /\ UNCHANGED autoLootCalls
     ELSE IF dialogItems # <<>> \/ enemies = <<>>
     THEN contexts' = Append(contexts, "awaitInit") /\ UNCHANGED autoLootCalls
     ELSE /\ contexts' = Append(contexts, "awaitLoot")
          /\ autoLootCalls' = autoLootCalls + 1
  /\ UNCHANGED <<dialogItems, autoLootInitialized, dropsPending, idsMade,
                 lastStep>>
  /\ UNCHANGED exceptItems

\* getAutoLootItemsFromEnemies resolves for the i-th invocation
LootResolves(i, autoLootItems) ==
  /\ i \in 1..Len(contexts)
  /\ contexts[i] = "awaitLoot"
  /\ contexts' = [contexts EXCEPT ![i] = "awaitInit"]
  /\ dialogItems' = AutoLootAssigned(dialogItems, autoLootItems)
  /\ lastStep' = Step("autoLoot", 0, "", "", 0)
  /\ UNCHANGED <<autoLootInitialized, autoLootCalls, dropsPending, idsMade>>
  /\ UNCHANGED exceptItems

\* getAutoLootItemsFromEnemies rejects: _prepareContext ends at its await
LootRejects(i) ==
  /\ i \in 1..Len(contexts)
  /\ contexts[i] = "awaitLoot"
  /\ contexts' = [contexts EXCEPT ![i] = "rejected"]
  /\ UNCHANGED <<dialogItems, autoLootInitialized, autoLootCalls,
                 dropsPending, idsMade, lastStep>>
  /\ UNCHANGED exceptItems

\* await this._maybeInitializeAutoLootItems() is over:
\* this._autoLootInitialized = true
InitReturns(i) ==
  /\ i \in 1..Len(contexts)
  /\ contexts[i] = "awaitInit"
  /\ contexts' = [contexts EXCEPT ![i] = "done"]
  /\ autoLootInitialized' = TRUE
  /\ UNCHANGED <<dialogItems, autoLootCalls, dropsPending, idsMade, lastStep>>
  /\ UNCHANGED exceptItems

\* onDropItem up to await fromUuid(uuid)
DropItem(uuid) ==
  /\ Len(dropsPending) < MaxPendingDrops
  /\ dropsPending' = Append(dropsPending, uuid)
  /\ UNCHANGED <<dialogItems, autoLootInitialized, contexts, autoLootCalls,
                 idsMade, lastStep>>
  /\ UNCHANGED exceptItems

\* fromUuid of the k-th pending drop resolves, with an Item or not
DropResolves(k, found) ==
  /\ k \in 1..Len(dropsPending)
  /\ dropsPending' = Splice(dropsPending, k)
  /\ IF ~found
     THEN UNCHANGED <<dialogItems, idsMade, lastStep>>
     ELSE LET uuid == dropsPending[k]
              listed == ItemIndexByUuid(dialogItems, uuid) # 0
          IN  /\ listed \/ idsMade < MaxLocalIds
              /\ dialogItems' = DropMerged(dialogItems, uuid, 2 + idsMade + 1)
              /\ idsMade' = (IF listed THEN idsMade ELSE idsMade + 1)
              /\ lastStep' = Step("drop", 0, uuid, "", 0)
  /\ UNCHANGED <<autoLootInitialized, contexts, autoLootCalls>>
  /\ UNCHANGED exceptItems

\* _onActionIncreaseItemQuantity / _onActionDecreaseItemQuantity
ClickQuantity(itemId, delta) ==
  /\ dialogItems' = updateItemQuantity(dialogItems, itemId, "delta", delta)
  /\ lastStep' = Step("delta", itemId, "", "", delta)
  /\ UNCHANGED <<autoLootInitialized, contexts, autoLootCalls, dropsPending,
                 idsMade>>
  /\ UNCHANGED exceptItems

\* onItemQuantityInputChange with input.value = raw
QuantityInputChange(itemId, raw) ==
  /\ dialogItems' = QuantityInput(dialogItems, itemId, raw)
  /\ lastStep' = Step("input", itemId, "", raw, 0)
  /\ UNCHANGED <<autoLootInitialized, contexts, autoLootCalls, dropsPending,
                 idsMade>>
  /\ UNCHANGED exceptItems

\* _onActionRemoveItem
RemoveItem(itemId) ==
  /\ dialogItems' = removeItemById(dialogItems, itemId)
  /\ lastStep' = Step("remove", itemId, "", "", 0)
  /\ UNCHANGED <<autoLootInitialized, contexts, autoLootCalls, dropsPending,
                 idsMade>>
  /\ UNCHANGED exceptItems

NextItems ==
  \/ PrepareContext
  \/ \E i \in 1..MaxContexts, l \in AutoLootLists : LootResolves(i, l)
  \/ \E i \in 1..MaxContexts : LootRejects(i)
  \/ \E i \in 1..MaxContexts : InitReturns(i)
  \/ \E u \in ItemUuids : DropItem(u)
  \/ \E k \in 1..MaxPendingDrops, f \in BOOLEAN :
       DropResolves(k, f) /\ WithinItems'
  \/ \E id \in ItemIds : RemoveItem(id)

SpecItems == InitItems /\ [][NextItems]_vars

\* the dialog once its first render is over: the auto-loot was tried and
\* the list is what it resolved with
InitQuantity ==
  /\ allies = <<>>
  /\ enemies = <<NewEntry(ActorOf("n3"))>>
  /\ importQueue = <<>>
  /\ importAllies = Null
  /\ importEnemies = Null
  /\ savedQueue = <<>>
  /\ DiffIdle
  /\ LootIdle
  /\ TreasureIdle
  /\ HoardIdle
  /\ LookupIdle
  /\ PriceIdle
  /\ ExportIdle
  /\ GenerationIdle
  /\ dialogItems \in AutoLootLists
  /\ autoLootInitialized = TRUE
  /\ contexts = <<"done">>
  /\ autoLootCalls = 1
  /\ dropsPending = <<>>
  /\ idsMade = 0
  /\ lastStep = Null

\* the handlers of the items tab on the rendered dialog
NextQuantity ==
  \/ \E u \in ItemUuids : DropItem(u)
  \/ \E k \in 1..MaxPendingDrops, f \in BOOLEAN :
       DropResolves(k, f) /\ WithinItems'
  \/ \E id \in ItemIds, d \in {-1, 1} : ClickQuantity(id, d) /\ WithinItems'
  \/ \E id \in ItemIds, raw \in RawQuantities : QuantityInputChange(id, raw)
  \/ \E id \in ItemIds : RemoveItem(id)

SpecQuantity == InitQuantity /\ [][NextQuantity]_vars

(***************************************************************************)
(* calculator-actions.js: the lookups in XP_BUDGET_2024 called on their    *)
(* own.  The argument is what Number() makes of the value passed in: an    *)
(* integer, or Null for NaN (a non-numeric value); null and undefined      *)
(* levels and XP values convert to 0 or NaN, both of which `|| d` replaces. *)
(***************************************************************************)
\* XP values tried: every integer from -MinusXp to MaxLookupXp, which lies
\* beyond the largest entry of the table
MaxLookupXp == 22100
MinusXp == 5
\* levels tried: from -MinusLevel to MaxLookupLevel
MaxLookupLevel == 25
MinusLevel == 3

LookupKeys == {"low", "moderate", "high", "deadly"}
LookupXps == {Null} \cup {Some(x) : x \in (0 - MinusXp)..MaxLookupXp}
LookupLevels == {Null} \cup {Some(l) : l \in (0 - MinusLevel)..MaxLookupLevel}

\* Number(v) || 0 and Number(v) || 1 see NaN as falsy, like 0
NumberOrZero(arg) == IF arg = Null THEN 0 ELSE arg[1]

InitLookup ==
  /\ allies = <<>>
  /\ enemies = <<>>
  /\ importQueue = <<>>
  /\ importAllies = Null
  /\ importEnemies = Null
  /\ savedQueue = <<>>
  /\ DiffIdle
  /\ LootIdle
  /\ TreasureIdle
  /\ HoardIdle
  /\ \/ lookupFn = "getPseudoLevelForNpcXp"
        /\ lookupArg \in LookupXps
        /\ lookupKey \in LookupKeys
     \/ lookupFn = "getBudgetRowForLevel"
        /\ lookupArg \in LookupLevels
        /\ lookupKey = "moderate"
  /\ pseudoLevel = Null
  /\ budgetRow = Null
  /\ PriceIdle
  /\ ExportIdle
  /\ GenerationIdle
  /\ ItemsIdle

CallPseudoLevel ==
  /\ lookupFn = "getPseudoLevelForNpcXp"
  /\ pseudoLevel = Null
  /\ pseudoLevel' = Some(getPseudoLevelForNpcXp(NumberOrZero(lookupArg), lookupKey))
  /\ UNCHANGED <<lookupFn, lookupArg, lookupKey, budgetRow>>
  /\ UNCHANGED exceptLookup

CallBudgetRow ==
  /\ lookupFn = "getBudgetRowForLevel"
  /\ budgetRow = Null
  /\ budgetRow' = Some(getBudgetRowForLevel(NumberOrZero(lookupArg)))
  /\ UNCHANGED <<lookupFn, lookupArg, lookupKey, pseudoLevel>>
  /\ UNCHANGED exceptLookup

NextLookup ==
  \/ CallPseudoLevel
  \/ CallBudgetRow

SpecLookup == InitLookup /\ [][NextLookup]_vars

(***************************************************************************)
(* loot-aggregator.service.js getItemGoldValue and its copy in the item    *)
(* handler of the dialog, getItemGoldValueFromDocument.  Amounts are       *)
(* counted in hundredths of a gold piece, in which every rate is whole.    *)
(***************************************************************************)
GpUnit == 100

\* item.system.price: null or undefined (Null), a number (NaN as Null), an
\* object with the optional fields value, denomination and currency, or a
\* value of another type
PriceNumber(n) == [kind |-> "number", value |-> n]
PriceObject(v, d, c) ==
  [kind |-> "object", value |-> v, denomination |-> d, currency |-> c]
PriceString == [kind |-> "string"]

\* what the switch multiplies value by, in hundredths; the default branch
\* returns value itself
RateOf_UnknownZero(denom) ==
  CASE denom = "pp" -> 10 * GpUnit
    [] denom = "gp" -> GpUnit
    [] denom = "ep" -> GpUnit \div 2
    [] denom = "sp" -> GpUnit \div 10
    [] denom = "cp" -> GpUnit \div 100
    [] OTHER -> 0

RateOf(denom) ==
  CASE denom = "pp" -> 10 * GpUnit
    [] denom = "gp" -> GpUnit
    [] denom = "ep" -> GpUnit \div 2
    [] denom = "sp" -> GpUnit \div 10
    [] denom = "cp" -> GpUnit \div 100
    [] OTHER -> GpUnit

\* the item is represented by its system.price
getItemGoldValue(price) ==
  IF price = Null THEN 0
  ELSE LET pd == price[1]
       IN  CASE pd.kind = "number" -> NumberOrZero(pd.value) * GpUnit
             [] pd.kind = "object" ->
                  LET value == NumberOrZero(pd.value)
                      denom == ToLowerCase(
                                 OrElse(pd.denomination, OrElse(pd.currency, "gp")))
                  IN  IF value = 0 THEN 0 ELSE value * RateOf(denom)
             [] OTHER -> 0

getItemGoldValueFromDocument(price) ==
  IF price = Null THEN 0
  ELSE LET pd == price[1]
       IN  CASE pd.kind = "number" -> NumberOrZero(pd.value) * GpUnit
             [] pd.kind = "object" ->
                  LET value == NumberOrZero(pd.value)
                      denom == ToLowerCase(
                                 OrElse(pd.denomination, OrElse(pd.currency, "gp")))
                  IN  IF value = 0 THEN 0 ELSE value * RateOf(denom)
             [] OTHER -> 0

\* the largest price value tried
MaxPriceValue == 4
PriceValues == {Null} \cup {Some(v) : v \in ({-2} \cup 0..MaxPriceValue)}
Denominations ==
  {Null} \cup {Some(d) : d \in {"pp", "gp", "ep", "sp", "cp", "PP", "Gp", "xp", ""}}
Currencies == {Null, Some("SP"), Some("cp"), Some("usd")}
PriceDatas ==
  {Null, Some(PriceString)}
    \cup {Some(PriceNumber(v)) : v \in PriceValues}
    \cup {Some(PriceObject(v, d, c)) :
            v \in PriceValues, d \in Denominations, c \in Currencies}

InitPrice ==
  /\ allies = <<>>
  /\ enemies = <<>>
  /\ importQueue = <<>>
  /\ importAllies = Null
  /\ importEnemies = Null
  /\ savedQueue = <<>>
  /\ DiffIdle
  /\ LootIdle
  /\ TreasureIdle
  /\ HoardIdle
  /\ LookupIdle
  /\ priceData \in PriceDatas
  /\ goldValue = Null
  /\ documentGoldValue = Null
  /\ ExportIdle
  /\ GenerationIdle
  /\ ItemsIdle

CallGetItemGoldValue ==
  /\ goldValue = Null
  /\ goldValue' = Some(getItemGoldValue(priceData))
  /\ UNCHANGED <<priceData, documentGoldValue>>
  /\ UNCHANGED exceptPrice

CallGetItemGoldValueFromDocument ==
  /\ documentGoldValue = Null
  /\ documentGoldValue' = Some(getItemGoldValueFromDocument(priceData))
  /\ UNCHANGED <<priceData, goldValue>>
  /\ UNCHANGED exceptPrice

NextPrice ==
  \/ CallGetItemGoldValue
  \/ CallGetItemGoldValueFromDocument

SpecPrice == InitPrice /\ [][NextPrice]_vars

(***************************************************************************)
(* Properties of the rosters                                               *)
(***************************************************************************)
\* quantity of the enemy row with this uuid, 0 when there is none
QuantityOf(en, uuid) ==
  IF FindIndex(en, uuid) = 0 THEN 0 ELSE en[FindIndex(en, uuid)].quantity

QuantitiesInRange(en) ==
  \A i \in 1..Len(en) : en[i].quantity \in 1..MaxQuantity

\* C1: every entry of the enemies list has totalXp = xp * quantity, after any
\* sequence of drops, quantity updates, imports, removals and renders.
C1_TotalXpIsXpTimesQuantity ==
  \A i \in 1..Len(enemies) :
    enemies[i].totalXp = Some(enemies[i].xp * enemies[i].quantity)

\* an enemy worth XP whose quantity was raised above 1
C1_Witness ==
  \E i \in 1..Len(enemies) :
    /\ enemies[i].xp > 0
    /\ enemies[i].quantity > 1
    /\ enemies[i].totalXp = Some(enemies[i].xp * enemies[i].quantity)

\* Values tried for an update in C2, on top of those the handlers pass.
C2_Values == QuantityValues \cup {-100, 99}

\* what C2 says of an update of row u, from roster en to roster after
C2_UpdatePost(en, after, u, q) ==
  IF q <= 0
  THEN /\ FindIndex(after, u) = 0
       /\ Len(after) = Len(en) - 1
  ELSE /\ QuantityOf(after, u) = Min(q, 99)
       /\ Len(after) = Len(en)

\* C2: every enemy quantity is in 1..99, and from every roster the
\* calculator reaches, an update to a quantity <= 0 removes the row, while a
\* result above 99 (also by one more drop of the same NPC) is stored as 99.
C2_QuantityClampedOrRemoved ==
  /\ QuantitiesInRange(enemies)
  /\ \A i \in 1..Len(enemies), v \in C2_Values :
       LET u == enemies[i].uuid
           q == enemies[i].quantity
       IN  /\ C2_UpdatePost(enemies,
                            updateEnemyQuantity(enemies, u, "delta", v), u, q + v)
           /\ C2_UpdatePost(enemies,
                            updateEnemyQuantity(enemies, u, "set", v), u, v)
           /\ enemies[i].type # "character" =>
                QuantityOf(addSingleActorToSide(allies, enemies, ActorOf(u),
                                                "enemies").enemies, u)
                  = Min(q + 1, 99)

\* an NPC row standing at the cap
C2_Witness ==
  \E i \in 1..Len(enemies) :
    enemies[i].type = "npc" /\ enemies[i].quantity = 99

(***************************************************************************)
(* Properties of calculateDifficulty                                       *)
(***************************************************************************)
\* whether an ally is a party member, as C3 and C6 describe it
IsPartyMember(ally) ==
  \/ ally.type = "character"
  \/ ally.type = "npc" /\ ally.xp > 0 /\ allyNpcWeight > 0

PartyIsEmpty == \A i \in 1..Len(allies) : ~IsPartyMember(allies[i])

\* budgetRowForLevel(member.level)[tier] * member.weight of one ally, in
\* twentieths
Contribution(ally, tier) ==
  IF ally.type = "character"
  THEN getBudgetRowForLevel(IF IsNull(ally.level) THEN 1 ELSE ally.level[1])[tier]
         * WeightUnit
  ELSE IF ally.type = "npc" /\ ally.xp > 0 /\ allyNpcWeight > 0
  THEN getBudgetRowForLevel(getPseudoLevelForNpcXp(ally.xp, "moderate"))[tier]
         * allyNpcWeight
  ELSE 0

RECURSIVE ContributionSum(_, _)
ContributionSum(n, tier) ==
  IF n = 0 THEN 0
  ELSE ContributionSum(n - 1, tier) + Contribution(allies[n], tier)

\* r is the integer nearest to s twentieths (a half counts upwards)
IsRounded(r, s) == WeightUnit * r - 10 <= s /\ s < WeightUnit * r + 10

EffectiveTier ==
  IF targetDifficultyKey \in {"low", "moderate", "high"}
  THEN targetDifficultyKey ELSE "moderate"

\* C3: with a party, budget is the rounded sum over the party members of
\* budgetRowForLevel(level)[tier] * weight, the tier being the target tier
\* ("moderate" when the target tier is invalid).
C3_BudgetIsRoundedWeightedSum ==
  (difficulty # Null /\ ~PartyIsEmpty) =>
    IsRounded(difficulty[1].budget, ContributionSum(Len(allies), EffectiveTier))

\* two level-5 characters at "moderate" give 1500
C3_Witness ==
  /\ difficulty # Null
  /\ Len(allies) = 2
  /\ \A i \in 1..2 : allies[i].type = "character" /\ allies[i].level = Some(5)
  /\ targetDifficultyKey = "moderate"
  /\ difficulty[1].budget = 1500

AggregateBudget(tier) ==
  LET s == ContributionSum(Len(allies), tier)
  IN  CHOOSE r \in {s \div WeightUnit, s \div WeightUnit + 1} : IsRounded(r, s)

ClassicLabel(totalXP, low, moderate, high) ==
  IF totalXP = 0 THEN "Brak wrogow"            \* No enemies
  ELSE IF low = 0 /\ moderate = 0 /\ high = 0 THEN "Brak budzetu"  \* No budget
  ELSE IF totalXP <= low THEN "Niskie"         \* Low
  ELSE IF totalXP <= moderate THEN "Umiarkowane"  \* Moderate
  ELSE IF totalXP <= high THEN "Wysokie"       \* High
  ELSE "Ekstremalne"                           \* Extreme

\* C4: in classic mode with a party the label buckets totalXP against the
\* party's three aggregate budgets, whatever the target tier.
C4_ClassicLabel ==
  (difficulty # Null /\ ~PartyIsEmpty /\ difficultyDisplayMode = "dmg") =>
    difficulty[1].label =
      ClassicLabel(difficulty[1].totalXP, AggregateBudget("low"),
                   AggregateBudget("moderate"), AggregateBudget("high"))

\* two level-5 characters against 1600 XP are "High"
C4_Witness ==
  /\ difficulty # Null
  /\ difficultyDisplayMode = "dmg"
  /\ Len(allies) = 2
  /\ \A i \in 1..2 : allies[i].type = "character" /\ allies[i].level = Some(5)
  /\ difficulty[1].totalXP = 1600
  /\ difficulty[1].label = "Wysokie"

RelativeLabel(totalXP, budget) ==
  IF totalXP = 0 THEN "Brak wrogow"                       \* No enemies
  ELSE IF budget = 0 THEN "Brak budzetu"                  \* No budget
  ELSE IF 100 * totalXP < 75 * budget THEN "Ponizej budzetu"       \* Below
  ELSE IF 100 * totalXP <= 125 * budget THEN "W zakresie budzetu"  \* Within
  ELSE IF 100 * totalXP <= 175 * budget THEN "Powyzej budzetu"     \* Above
  ELSE "Znacznie powyzej budzetu"                         \* Well above

\* C5: in relative mode with a party the label buckets totalXP / budget at
\* 0.75, 1.25 and 1.75, the boundaries falling in Within, Within and Above.
C5_RelativeLabel ==
  (difficulty # Null /\ ~PartyIsEmpty /\ difficultyDisplayMode = "budget") =>
    difficulty[1].label =
      RelativeLabel(difficulty[1].totalXP, AggregateBudget(EffectiveTier))

\* a ratio of exactly 0.75 labelled Within
C5_Witness ==
  /\ difficulty # Null
  /\ difficultyDisplayMode = "budget"
  /\ ~PartyIsEmpty
  /\ difficulty[1].totalXP > 0
  /\ 4 * difficulty[1].totalXP = 3 * difficulty[1].budget
  /\ difficulty[1].label = "W zakresie budzetu"

RECURSIVE EnemyXpSum(_)
EnemyXpSum(en) ==
  IF en = <<>> THEN 0
  ELSE (IF IsNull(Head(en).totalXp) THEN Head(en).xp * Head(en).quantity
        ELSE Head(en).totalXp[1]) + EnemyXpSum(Tail(en))

\* C6: without a party member the result is "No party", "-", budget 0 and
\* the enemies' XP sum, for every roster, tier and mode.
C6_NoParty ==
  (difficulty # Null /\ PartyIsEmpty) =>
    /\ difficulty[1].label = "Brak druzyny"
    /\ difficulty[1].targetLabel = "-"
    /\ difficulty[1].budget = 0
    /\ difficulty[1].totalXP = EnemyXpSum(enemies)

\* no party and no enemies: "No party" wins over "No enemies"; the allies
\* are there but none counts (an NPC at weight 0)
C6_Witness ==
  /\ difficulty # Null
  /\ allies # <<>>
  /\ \E i \in 1..Len(allies) : allies[i].type = "npc" /\ allies[i].xp > 0
  /\ allyNpcWeight = 0
  /\ enemies = <<>>
  /\ difficulty[1].label = "Brak druzyny"

(***************************************************************************)
(* Properties of aggregateLootFromEnemies                                  *)
(***************************************************************************)
\* the rows whose actorResolver call gave an Actor, in call order
RECURSIVE ResolvedEnemies(_)
ResolvedEnemies(calls) ==
  IF calls = <<>> THEN <<>>
  ELSE (IF Head(calls).outcome = "actor" THEN <<enemies[Head(calls).index]>>
        ELSE <<>>) \o ResolvedEnemies(Tail(calls))

Occurrences(items, uuid) ==
  Cardinality({ i \in 1..Len(items) : items[i].uuid = uuid })

ClampedQuantity(q) == Max(1, Min(MaxQuantity, IF q = 0 THEN 1 ELSE q))

RECURSIVE RepeatsSum(_, _, _)
\* the sum of repeats over every occurrence of uuid in the inventories
RepeatsSum(rows, uuid, mode) ==
  IF rows = <<>> THEN 0
  ELSE (IF mode = "perEnemy" THEN ClampedQuantity(Head(rows).quantity) ELSE 1)
         * Occurrences(InventoryOf(Head(rows).uuid), uuid)
       + RepeatsSum(Tail(rows), uuid, mode)

\* C7: in the modes perEnemy and perActorType every returned entry's
\* quantity is min(99, sum of repeats over the occurrences of its uuid in
\* the inventories of the resolved enemies).
C7_QuantityIsCappedSum ==
  (lootPc = "done" /\ lootMode \in {"perEnemy", "perActorType"}) =>
    \A i \in 1..Len(lootResult[1]) :
      lootResult[1][i].quantity =
        Min(99, RepeatsSum(ResolvedEnemies(lootCalls), lootResult[1][i].uuid,
                           lootMode))

\* one uuid carried by two enemies with quantities 2 and 3 gives 5
C7_Witness ==
  /\ lootPc = "done"
  /\ lootMode = "perEnemy"
  /\ Len(enemies) = 2
  /\ {enemies[1].quantity, enemies[2].quantity} = {2, 3}
  /\ \E i \in 1..Len(lootResult[1]) :
       lootResult[1][i].uuid = "i.sword" /\ lootResult[1][i].quantity = 5

\* the item of the world a returned entry was made from
ItemNamed(name) ==
  CHOOSE item \in UNION { { InventoryOf(u)[k] : k \in 1..Len(InventoryOf(u)) } :
                          u \in {"n3", "n4", "n5"} } : item.name = name

\* a natural weapon: a weapon whose subtype is "natural" or whose property
\* list holds "natural" or "nat", in any letter case, as a string or as the
\* value of an object
NaturalSpellings == {"natural", "Natural", "NATURAL", "nat", "Nat", "NAT"}
IsNaturalWeaponItem(item) ==
  /\ item.type = "weapon"
  /\ \/ item.subtype \in {Some("natural"), Some("Natural"), Some("NATURAL")}
     \/ /\ item.properties.kind = "array"
        /\ \E k \in 1..Len(item.properties.elems) :
             /\ item.properties.elems[k].value # Null
             /\ item.properties.elems[k].value[1] \in NaturalSpellings

IsEligibleItem(item) ==
  /\ item.type \in {"weapon", "equipment", "armor", "consumable", "loot",
                    "tool", "container", "gear"}
  /\ ~IsNaturalWeaponItem(item)
  /\ item.uuid # ""

RECURSIVE EligibleUuids(_)
EligibleUuids(items) ==
  IF items = <<>> THEN <<>>
  ELSE (IF IsEligibleItem(Head(items)) THEN <<Head(items).uuid>> ELSE <<>>)
         \o EligibleUuids(Tail(items))

RECURSIVE EncounteredUuids(_)
\* the eligible uuids in the order they are met: enemies in roster order,
\* each enemy's items in inventory order
EncounteredUuids(rows) ==
  IF rows = <<>> THEN <<>>
  ELSE EligibleUuids(InventoryOf(Head(rows).uuid))
         \o EncounteredUuids(Tail(rows))

RECURSIVE FirstSeen(_)
\* a sequence with every later repetition of an element dropped
FirstSeen(seq) ==
  IF seq = <<>> THEN <<>>
  ELSE LET front == FirstSeen(SubSeq(seq, 1, Len(seq) - 1))
           last == seq[Len(seq)]
       IN  IF \E k \in 1..Len(front) : front[k] = last THEN front
           ELSE Append(front, last)

\* C9: the returned list holds one entry per eligible uuid, in the order in
\* which the uuids were first met.
C9_OneEntryPerUuidInFirstSeenOrder ==
  lootPc = "done" =>
    /\ \A i, j \in 1..Len(lootResult[1]) :
         lootResult[1][i].uuid = lootResult[1][j].uuid => i = j
    /\ [i \in 1..Len(lootResult[1]) |-> lootResult[1][i].uuid]
         = FirstSeen(EncounteredUuids(ResolvedEnemies(lootCalls)))

\* potion met before sword, both met again later: potion stays first
C9_Witness ==
  /\ lootPc = "done"
  /\ Len(lootCalls) = 2
  /\ \A c \in 1..2 : lootCalls[c].outcome = "actor"
  /\ enemies[1].uuid = "n4" /\ enemies[2].uuid = "n3"
  /\ Len(lootResult[1]) = 2
  /\ lootResult[1][1].uuid = "i.potion"
  /\ lootResult[1][2].uuid = "i.sword"

(***************************************************************************)
(* Properties of generateIndividualTreasure                                *)
(***************************************************************************)
RECURSIVE QuantityInBucket(_, _, _)
\* the quantities of the first n enemies whose CR is known and lies in
\* (above, upTo]
QuantityInBucket(n, above, upTo) ==
  IF n = 0 THEN 0
  ELSE QuantityInBucket(n - 1, above, upTo)
       + (IF /\ enemies[n].cr # Null
             /\ enemies[n].cr[1] > above
             /\ enemies[n].cr[1] <= upTo
          THEN enemies[n].quantity ELSE 0)

\* C10: in average mode gold is 10 per enemy of CR <= 4 plus 90 per enemy
\* of 4 < CR <= 10, platinum is 110 per enemy of 10 < CR <= 16 plus 900 per
\* enemy of CR > 16, each times the quantity; the other coins are 0; rows
\* without CR add nothing; nothing is negative.
C10_AverageIndividualTreasure ==
  (treasurePc = "done" /\ treasureMode = "average") =>
    LET n == Len(enemies)
    IN  /\ treasure[1].gold = 10 * QuantityInBucket(n, -1, 4)
                              + 90 * QuantityInBucket(n, 4, 10)
        /\ treasure[1].platinum = 110 * QuantityInBucket(n, 10, 16)
                                  + 900 * QuantityInBucket(n, 16, 1000)
        /\ treasure[1].silver = 0
        /\ treasure[1].copper = 0
        /\ treasure[1].electrum = 0
        /\ treasure[1].gold >= 0
        /\ treasure[1].platinum >= 0

\* one enemy of CR 3 with quantity 1 gives gold 10 and platinum 0
C10_Witness ==
  /\ treasurePc = "done"
  /\ treasureMode = "average"
  /\ Len(enemies) = 1
  /\ enemies[1].cr = Some(3)
  /\ enemies[1].quantity = 1
  /\ treasure[1].gold = 10
  /\ treasure[1].platinum = 0

(***************************************************************************)
(* Properties of generateTreasureHoard                                     *)
(***************************************************************************)
\* moneyAverage of the one bucket a CR falls in
HoardAverageFor(cr) ==
  CASE cr <= 4 -> 500
    [] cr > 4 /\ cr <= 10 -> 4400
    [] cr > 10 /\ cr <= 16 -> 36000
    [] cr > 16 -> 330000

RECURSIVE RowsWithCr(_)
RowsWithCr(n) ==
  IF n = 0 THEN <<>>
  ELSE RowsWithCr(n - 1) \o (IF enemies[n].cr # Null THEN <<n>> ELSE <<>>)

BucketFormula(cr) ==
  CASE cr <= 4 -> "3d6"
    [] cr > 4 /\ cr <= 10 -> "2d8*10"
    [] cr > 10 /\ cr <= 16 -> "2d10*10"
    [] cr > 16 -> "2d8*100"

\* the expression for a row: '(formula)*quantity' above quantity 1
ExpectedExpr(row) ==
  [formula |-> BucketFormula(row.cr[1]),
   times |-> IF row.quantity > 1 THEN Some(row.quantity) ELSE Null]

RECURSIVE ResolvedSum(_, _)
\* the sum of the first k resolved values whose row pays in the coins given
ResolvedSum(k, coins) ==
  IF k = 0 THEN 0
  ELSE ResolvedSum(k - 1, coins)
       + (IF /\ rollResults[k] # Null
             /\ (enemies[RowsWithCr(Len(enemies))[k]].cr[1] > 10) = (coins = "pp")
          THEN rollResults[k][1] ELSE 0)

\* C12: in roll mode rollEvaluator is invoked for the rows with a CR, in
\* roster order, one at a time, with '(formula)*quantity' or the bare
\* formula; when the promise resolves every such row was evaluated exactly
\* once and gold and platinum are the sums of the resolved values.
C12_RollModeSequential ==
  (treasureMode = "roll" /\ rollEvaluator = "function"
     /\ treasurePc \in {"awaiting", "done"}) =>
    LET rows == RowsWithCr(Len(enemies))
    IN  /\ Len(rollLog) <= Len(rows)
        /\ \A k \in 1..Len(rollLog) : rollLog[k] = ExpectedExpr(enemies[rows[k]])
        /\ Len(rollLog) - Len(rollResults)
             = (IF treasurePc = "awaiting" THEN 1 ELSE 0)
        /\ totalGp = ResolvedSum(Len(rollResults), "gp")
        /\ totalPp = ResolvedSum(Len(rollResults), "pp")
        /\ treasurePc = "done" =>
             /\ Len(rollLog) = Len(rows)
             /\ treasure[1].gold = Max(0, totalGp)
             /\ treasure[1].platinum = Max(0, totalPp)

\* two rows with a CR: two evaluations, the first with the bare formula and
\* paid in gold, the second with '(2d8*100)*99' and paid in platinum
C12_Witness ==
  /\ treasureMode = "roll"
  /\ treasurePc = "done"
  /\ Len(rollLog) = 2
  /\ rollLog[1].times = Null
  /\ rollLog[2] = [formula |-> "2d8*100", times |-> Some(99)]
  /\ rollResults = <<Some(7), Some(7)>>
  /\ treasure[1].gold = 7
  /\ treasure[1].platinum = 7

(***************************************************************************)
(* Rejections of rollEvaluator                                             *)
(***************************************************************************)
\* C13: once an invocation of rollEvaluator has rejected, the generator's
\* promise is rejected, it has no result, and the rejected invocation is the
\* last one made; for generateIndividualTreasure and generateTreasureHoard.
C13_RejectionPropagates ==
  /\ \A k \in 1..Len(rollResults) :
       rollResults[k] = Null =>
         /\ treasurePc = "rejected"
         /\ treasure = Null
         /\ Len(rollLog) = k
         /\ Len(rollResults) = k
  /\ \A k \in 1..Len(hoardResults) :
       hoardResults[k] = Null =>
         /\ hoardPc = "rejected"
         /\ hoard = Null
         /\ Len(hoardLog) = k
         /\ Len(hoardResults) = k

\* the first evaluation rejected with a second row still to be rolled; the
\* magic items roll rejected after the money roll had resolved with 7
C13_Witness ==
  /\ treasurePc = "rejected"
  /\ Len(rollResults) = 1
  /\ Len(RowsWithCr(Len(enemies))) = 2
  /\ hoardPc = "rejected"
  /\ Len(hoardResults) = 2
  /\ hoardResults[1] = Some(7)
  /\ goldTotal = 7

(***************************************************************************)
(* Failures of actorResolver                                               *)
(***************************************************************************)
RowsWithUuid == { i \in 1..Len(enemies) : enemies[i].uuid # "" }

\* C14: an actorResolver call that returns null or throws makes the
\* aggregation skip that enemy: the promise is never rejected, and when it
\* resolves every enemy with a uuid was asked for and the loot is that of
\* the enemies that did resolve.
C14_ResolverFailureSkipped ==
  /\ lootPc # "rejected"
  /\ (lootPc = "done" /\ lootCalls # <<>>) =>
       /\ Len(lootCalls) = Cardinality(RowsWithUuid)
       /\ \A c \in 1..Len(lootCalls) :
            lootCalls[c].outcome = "actor" =>
              \A k \in 1..Len(InventoryOf(enemies[lootCalls[c].index].uuid)) :
                LET item == InventoryOf(enemies[lootCalls[c].index].uuid)[k]
                IN  IsEligibleItem(item) =>
                      \E i \in 1..Len(lootResult[1]) :
                        lootResult[1][i].uuid = item.uuid

(***************************************************************************)
(* The aggregation and changes of the roster                               *)
(***************************************************************************)
RECURSIVE LootOf(_, _, _)
\* the loot of a roster all of whose enemies resolve, nothing intervening
LootOf(en, mode, g) ==
  IF en = <<>> THEN g
  ELSE LootOf(Tail(en), mode,
              AddItems(g, InventoryOf(Head(en).uuid), Repeats(Head(en), mode)))

\* C15: the loot returned is that of the roster as it was when the call
\* started, whatever was added, removed or changed while a resolver call
\* was pending.
C15_ResultOfSnapshot ==
  (lootPc = "done" /\ lootMode # "off") =>
    lootResult[1] = LootOf(lootSnapshot, lootMode, <<>>)

(***************************************************************************)
(* The lookups in the XP table                                             *)
(***************************************************************************)
Distance(a, b) == IF a >= b THEN a - b ELSE b - a
Levels == 1..MaxLevel
PseudoLevelCalled ==
  lookupFn = "getPseudoLevelForNpcXp" /\ pseudoLevel # Null
\* the argument is a number above 0
PositiveXp == lookupArg # Null /\ lookupArg[1] > 0

\* C16: for xp > 0 and a tier of low, moderate and high the level returned
\* is in 1..20, no level's budget of that tier is nearer to xp than its
\* budget, and every lower level's budget is strictly farther from xp.
C16_NearestLowestLevel ==
  (PseudoLevelCalled /\ PositiveXp /\ lookupKey \in {"low", "moderate", "high"}) =>
    LET L == pseudoLevel[1]
        xp == lookupArg[1]
    IN  /\ L \in Levels
        /\ \A K \in Levels :
             /\ Distance(XP_BUDGET_2024[L][lookupKey], xp)
                  <= Distance(XP_BUDGET_2024[K][lookupKey], xp)
             /\ K < L => Distance(XP_BUDGET_2024[K][lookupKey], xp)
                           > Distance(XP_BUDGET_2024[L][lookupKey], xp)

\* the lookup returned level 1 for an XP value as far from level 1's low
\* budget as from level 2's: two levels attain the minimum
C16_Witness ==
  /\ PseudoLevelCalled
  /\ lookupKey = "low"
  /\ lookupArg = Some(75)
  /\ Distance(XP_BUDGET_2024[1].low, 75) = Distance(XP_BUDGET_2024[2].low, 75)
  /\ pseudoLevel = Some(1)

\* C17: the lookup returns 1 for xp <= 0 and for a non-numeric xp, and an
\* integer in 1..20 for xp > 0 whatever the tier argument, an invalid tier
\* name included.
C17_PseudoLevelRange ==
  PseudoLevelCalled =>
    IF PositiveXp THEN pseudoLevel[1] \in Levels ELSE pseudoLevel[1] = 1

\* the lookup was called with a non-numeric xp and an invalid tier name
C17_Witness ==
  /\ PseudoLevelCalled
  /\ lookupArg = Null
  /\ lookupKey \notin {"low", "moderate", "high"}
  /\ pseudoLevel = Some(1)

\* clamp(level, 1, 20), a null level counting as 0
ClampLevel(arg) ==
  CASE arg = Null -> 1
    [] arg # Null /\ arg[1] < 1 -> 1
    [] arg # Null /\ arg[1] > MaxLevel -> MaxLevel
    [] OTHER -> arg[1]

KnownDenominations == {"pp", "gp", "ep", "sp", "cp"}
\* the denomination named by an object price, in lower case; Null if the
\* object names none
DenominationOf(pd) ==
  IF pd.denomination # Null THEN Some(ToLowerCase(pd.denomination[1]))
  ELSE IF pd.currency # Null THEN Some(ToLowerCase(pd.currency[1]))
  ELSE Null
\* value * 10, value, value * 0.5, value * 0.1, value * 0.01, in hundredths
InGold(value, denom) ==
  CASE denom = "pp" -> value * 1000
    [] denom = "gp" -> value * 100
    [] denom = "ep" -> value * 50
    [] denom = "sp" -> value * 10
    [] denom = "cp" -> value
\* the value of an object price as a number, 0 if it has none
ValueOf(pd) == IF pd.value = Null THEN 0 ELSE pd.value[1]
\* both conversions were called
PriceConverted == goldValue # Null /\ documentGoldValue # Null
IsObjectPrice == priceData # Null /\ priceData[1].kind = "object"
IsNumberPrice ==
  priceData # Null /\ priceData[1].kind = "number" /\ priceData[1].value # Null

\* the parts of the claim that do not depend on how a denomination outside
\* pp/gp/ep/sp/cp is treated: the five rates, a bare number unchanged,
\* missing price data 0
ConvertsKnown(result) ==
  /\ priceData = Null => result = 0
  /\ IsNumberPrice => result = priceData[1].value[1] * 100
  /\ (IsObjectPrice /\ DenominationOf(priceData[1]) # Null
        /\ DenominationOf(priceData[1])[1] \in KnownDenominations) =>
       result = InGold(ValueOf(priceData[1]), DenominationOf(priceData[1])[1])
HasUnknownDenomination ==
  /\ IsObjectPrice
  /\ DenominationOf(priceData[1]) # Null
  /\ DenominationOf(priceData[1])[1] \notin KnownDenominations

\* C19 as stated: the conversion multiplies the value by 10, 1, 0.5, 0.1 and
\* 0.01 for pp, gp, ep, sp and cp, returns a bare number unchanged, and
\* returns 0 when the price data is missing or its denomination is none of
\* the five.
C19_UnknownDenominationZero ==
  PriceConverted =>
    \A result \in {goldValue[1], documentGoldValue[1]} :
      /\ ConvertsKnown(result)
      /\ HasUnknownDenomination => result = 0

\* C19, amended: the conversion multiplies the value by 10, 1, 0.5, 0.1 and
\* 0.01 for pp, gp, ep, sp and cp (in either case of the letters), returns a
\* bare number unchanged, returns 0 when the price data is missing, and
\* treats an object price whose denomination is absent or none of the five
\* as gold: it returns its value.
C19_UnknownDenominationGold ==
  PriceConverted =>
    \A result \in {goldValue[1], documentGoldValue[1]} :
      /\ ConvertsKnown(result)
      /\ (HasUnknownDenomination
            \/ (IsObjectPrice /\ DenominationOf(priceData[1]) = Null)) =>
           result = ValueOf(priceData[1]) * 100

\* a price of 3 in a denomination outside the five was converted to 3 gp by
\* both functions
C19_Witness ==
  /\ PriceConverted
  /\ HasUnknownDenomination
  /\ priceData[1].denomination = Some("xp")
  /\ priceData[1].value = Some(3)
  /\ goldValue = Some(300)
  /\ documentGoldValue = Some(300)

(***************************************************************************)
(* The order of the enemies                                                *)
(***************************************************************************)
\* the uuid -> quantity mapping of a list of loot entries
EntryMap(g) == { <<g[i].uuid, g[i].quantity>> : i \in 1..Len(g) }
Orderings(n) ==
  { p \in [1..n -> 1..n] : \A i, j \in 1..n : p[i] = p[j] => i = j }
Reordered(rows, p) == [i \in 1..Len(rows) |-> rows[p[i]]]
\* no uuid's repeats add up to more than 99
NoSumExceedsCap(rows, mode) ==
  \A u \in 1..Len(rows) :
    \A k \in 1..Len(InventoryOf(rows[u].uuid)) :
      RepeatsSum(rows, InventoryOf(rows[u].uuid)[k].uuid, mode) <= 99

\* C20: when no uuid's repeats add up to more than 99, the entries returned
\* for a roster carry the same uuid -> quantity mapping as the entries the
\* aggregation gives for every other ordering of the same enemies.
C20_OrderIndependent ==
  (lootPc = "done" /\ lootMode \in {"perEnemy", "perActorType"}
     /\ NoSumExceedsCap(ResolvedEnemies(lootCalls), lootMode)) =>
    LET rows == ResolvedEnemies(lootCalls)
    IN  \A p \in Orderings(Len(rows)) :
          EntryMap(lootResult[1]) = EntryMap(LootOf(Reordered(rows, p), lootMode, <<>>))

\* two different enemies that share an item were aggregated with 2 and 3
\* repeats, and the other ordering lists the entries in another order
C20_Witness ==
  /\ lootPc = "done"
  /\ lootMode = "perEnemy"
  /\ Len(ResolvedEnemies(lootCalls)) = 2
  /\ enemies[1].uuid # enemies[2].uuid
  /\ {enemies[1].quantity, enemies[2].quantity} = {2, 3}
  /\ NoSumExceedsCap(enemies, lootMode)
  /\ <<"i.sword", 5>> \in EntryMap(lootResult[1])
  /\ lootResult[1] # LootOf(<<enemies[2], enemies[1]>>, lootMode, <<>>)

(***************************************************************************)
(* Mode "off"                                                              *)
(***************************************************************************)
\* C21: called with mode "off" the aggregation returns the empty list at
\* once, whatever the roster and the inventories, and actorResolver is not
\* invoked.
C21_OffReturnsEmpty ==
  (lootPc # "idle" /\ lootMode = "off") =>
    /\ lootPc = "done"
    /\ lootResult = Some(<<>>)
    /\ lootCalls = <<>>

\* mode "off" returned for a roster holding an enemy with loot to give
C21_Witness ==
  /\ lootPc = "done"
  /\ lootMode = "off"
  /\ \E i \in 1..Len(enemies) :
       /\ enemies[i].uuid # ""
       /\ \E k \in 1..Len(InventoryOf(enemies[i].uuid)) :
            IsEligibleItem(InventoryOf(enemies[i].uuid)[k])

(***************************************************************************)
(* Characters in the columns                                               *)
(***************************************************************************)
\* how often the actor uuid is listed in a column
RowsOf(list, uuid) == Cardinality({ i \in 1..Len(list) : list[i].uuid = uuid })
CharacterUuids == { a.uuid : a \in { b \in ActorTable : b.type = "character" } }

\* C22: an actor of type character is listed at most once in allies and
\* enemies together, after any drops, group imports, encounter imports,
\* loads of the saved set and removals.
C22_CharactersUnique ==
  \A u \in CharacterUuids : RowsOf(allies, u) + RowsOf(enemies, u) <= 1

(***************************************************************************)
(* The rows of the enemies column                                          *)
(***************************************************************************)
\* C28: no two rows of the enemies column have the same uuid, after any
\* drops, group imports, encounter imports, quantity updates and removals;
\* an actor dropped again on the enemies raises its row's quantity.
C28_EnemyRowsUnique ==
  \A i, j \in 1..Len(enemies) : enemies[i].uuid = enemies[j].uuid => i = j

\* the NPC n3 was added to the enemies twice and is one row of quantity 2
C28_Witness ==
  /\ \E i \in 1..Len(enemies) :
       enemies[i].uuid = "n3" /\ enemies[i].quantity = 2
  /\ RowsOf(enemies, "n3") = 1

(***************************************************************************)
(* From the enemies column to an encounter actor and back                  *)
(***************************************************************************)
\* the uuid -> quantity mapping of an enemies column
QuantityMap(list) == { <<list[i].uuid, list[i].quantity>> : i \in 1..Len(list) }
\* the encounter actor made from the column was imported into a calculator
\* whose columns were empty, and the import is over
RoundTripOver == calculatorEmptied /\ enemies # <<>> /\ importQueue = <<>>

\* C29: the enemies column imported from the encounter actor made of a
\* column has the uuids of that column and for every uuid its quantity,
\* whatever the column held, characters of a quantity above 1 included.
C29_RoundTrip ==
  RoundTripOver => QuantityMap(enemies) = QuantityMap(exportedRoster)

(***************************************************************************)
(* The magic items of a hoard made with averages                           *)
(***************************************************************************)
\* generateTreasureHoard returned a hoard for a bucket, made with averages
AverageHoardMade ==
  /\ hoardPc = "done"
  /\ hoardMode = "average"
  /\ ~IsNull(hoardMaxCr)
  /\ hoardMaxCr[1] >= 0

\* C24: also with averages the number of magic items of a hoard is rolled:
\* the magicItemsFormula of the bucket was handed to the rollEvaluator and
\* magicItemsCount is what it evaluated to.
C24_MagicItemsAlwaysRolled ==
  AverageHoardMade =>
    \E k \in 1..Len(hoardResults) :
      /\ hoardLog[k] = getTreasureHoardConfig(hoardMaxCr[1]).magicItemsFormula
      /\ ~IsNull(hoardResults[k])
      /\ hoard[1].magicItemsCount = Max(0, hoardResults[k][1])

(***************************************************************************)
(* The currency of the dialog and the generate buttons                     *)
(***************************************************************************)
\* C23: when a generate handler has made its assignments, platinum, gold,
\* silver, copper and electrum of the dialog are the fields of the result
\* the generator resolved with, whatever the fields held before.
C23_CurrencyOverwritten ==
  generationPc = "done" =>
    /\ dialogCurrency[1].platinum = GenerationResult.platinum
    /\ dialogCurrency[1].gold = GenerationResult.gold
    /\ dialogCurrency[1].silver = GenerationResult.silver
    /\ dialogCurrency[1].copper = GenerationResult.copper
    /\ dialogCurrency[1].electrum = GenerationResult.electrum

\* a generation was made with every field non-zero before it and ended
\* with gold only
C23_Witness ==
  /\ generationPc = "done"
  /\ \A k \in CurrencyKeys : currencyBefore[1].currency[k] > 0
  /\ GenerationResult.gold > 0
  /\ \A k \in CurrencyKeys \ {"gold"} : dialogCurrency[1][k] = 0

\* C30: while a generate handler runs, and when it has ended because no
\* enemy has a CR, the prompt was cancelled or the rollEvaluator rejected,
\* the five currency fields and magicItemsCount are what they were when
\* the handler was requested (with the fields the user edited since).
C30_UnchangedWithoutSuccess ==
  generationPc \in {"prompt", "chosen", "noCr", "cancelled", "rejected"} =>
    DialogState = currencyBefore[1]

\* a hoard generation was rejected at its second roll, after an earlier
\* hoard had left a magic item count and the user had typed a currency
C30_Witness ==
  /\ generationPc = "rejected"
  /\ generationKind = "hoard"
  /\ Len(hoardResults) = 2
  /\ dialogMagicItemsCount > 0
  /\ dialogCurrency[1].silver > 0

(***************************************************************************)
(* The auto-loot initialisation of the dialog                              *)
(***************************************************************************)
\* C25: over the lifetime of one dialog, however its _prepareContext
\* invocations interleave, getAutoLootItemsFromEnemies is invoked at most
\* once.
C25_AutoLootOnce == autoLootCalls <= 1

(***************************************************************************)
(* The quantities of the dialog's item list                                *)
(***************************************************************************)
\* inputs of the quantity field that are no numeral: the cleared field and
\* letters; and the number a numeral stands for
NonNumericRaws == {"", "abc"}
TypedNumber(raw) ==
  CASE raw = "0" -> 0
    [] raw = "2" -> 2
    [] raw = "150" -> 150

\* the last handler was a +/- click or a quantity input on a listed item
QuantityChanged ==
  /\ lastStep # Null
  /\ lastStep[1].kind \in {"delta", "input"}
  /\ ItemIndexById(lastStep[1].before, lastStep[1].id) # 0

\* C26: every item of the list has a quantity in 1..99; a +/- click or a
\* quantity input whose result is 0 or less takes the item off the list, a
\* result above 99 is stored as 99, and an input that is no number leaves
\* the list as it was.
C26_QuantitiesInRange ==
  /\ \A i \in 1..Len(dialogItems) : dialogItems[i].quantity \in 1..99
  /\ QuantityChanged =>
       LET st == lastStep[1]
           k == ItemIndexById(st.before, st.id)
       IN  IF st.kind = "input" /\ st.raw \in NonNumericRaws
           THEN dialogItems = st.before
           ELSE LET result == IF st.kind = "delta"
                              THEN st.before[k].quantity + st.delta
                              ELSE TypedNumber(st.raw)
                IN  IF result <= 0
                    THEN dialogItems =
                           SelectSeq(st.before, LAMBDA it : it.id # st.id)
                    ELSE dialogItems =
                           [st.before EXCEPT ![k].quantity =
                              IF result > 99 THEN 99 ELSE result]

(***************************************************************************)
(* Identical items of the dialog's list                                    *)
(***************************************************************************)
\* C27: no two entries of the item list have the same uuid; a drop that
\* completes for a listed uuid raises that entry's quantity by 1, up to
\* 99, and changes nothing else; when the auto-loot initialisation has
\* resolved, every entry that was listed before is still listed.
C27_ItemsMerged ==
  /\ \A i, j \in 1..Len(dialogItems) :
       dialogItems[i].uuid = dialogItems[j].uuid => i = j
  /\ (lastStep # Null /\ lastStep[1].kind = "drop") =>
       LET before == lastStep[1].before
           k == ItemIndexByUuid(before, lastStep[1].uuid)
       IN  k # 0 =>
             dialogItems =
               [before EXCEPT ![k].quantity =
                  IF before[k].quantity >= 99 THEN 99
                  ELSE before[k].quantity + 1]
  /\ (lastStep # Null /\ lastStep[1].kind = "autoLoot") =>
       \A i \in 1..Len(lastStep[1].before) :
         \E j \in 1..Len(dialogItems) : dialogItems[j] = lastStep[1].before[i]

\* the auto-loot resolved after the user had dropped the same item twice
\* while it was awaited: the list still is the one entry of quantity 2
C27_Witness ==
  /\ lastStep # Null
  /\ lastStep[1].kind = "autoLoot"
  /\ Len(lastStep[1].before) = 1
  /\ lastStep[1].before[1].quantity = 2
  /\ lastStep[1].before[1].id \notin AutoLootIds
  /\ dialogItems = lastStep[1].before

====
